---- MODULE Spec2Model ----
(***************************************************************************)
(* A model of hydrogen-web's BaseRoom (src/src/matrix/room/BaseRoom.js):   *)
(* the decryption pipeline (_decryptEntries / DecryptionRequest), the      *)
(* timeline lifecycle (openTimeline / dispose), key retry (notifyRoomKey)  *)
(* and gap filling (fillGap).                                              *)
(*                                                                         *)
(* The scheduling model is the one of the JavaScript event loop: every     *)
(* action is the synchronous run of one handler from the place it was      *)
(* resumed (a call, or the settling of the promise it awaits) up to its    *)
(* next await.  Collaborators whose code is not part of the sources        *)
(* (Timeline, GapWriter, FragmentIdComparer, the storage transaction) are  *)
(* modelled from their documented contract and say so where defined.       *)
(***************************************************************************)
EXTENDS Integers, Sequences, FiniteSets, TLC

\* ------------------------------------------------------------------ bounds
\* number of events (and of entry objects) of the room
NumEvents == 3
\* number of Timeline instances the room may construct in one behaviour
MaxTimelines == 2

\* length of the eventIds list handed to notifyRoomKey
MaxEventIds == 2
\* the largest `amount` a fillGap call asks for
MaxAmount == 2
\* number of fragment ids the storage may hand out
MaxFragments == 5
\* the most events a section of a sync room response holds
MaxSectionLen == 2

Events == 1..NumEvents
TimelineIds == 1..MaxTimelines

\* BaseRoom.js:31
EVENT_ENCRYPTED_TYPE == "m.room.encrypted"

\* entry.eventType: events with an odd id are ciphertext, the others are not
eventType(e) == IF e % 2 = 1 THEN EVENT_ENCRYPTED_TYPE ELSE "m.room.message"

\* the concurrent invocations of fillGap
FillCalls == {"f1", "f2"}

\* the callers that hold a DecryptionRequest
Owners == {"direct", "retry", "retry2", "read"} \cup FillCalls
\* the concurrent invocations of openTimeline
OpenCalls == {"a", "b"}

\* the calls, the users with their devices, and the sessions of the devices
CallIds == {"c1", "c2"}
UserIds == {"@own", "@u1"}
DeviceIds == {"d1", "d2"}
SessionIds == {"s1", "s2"}
\* options.ownUserId and options.ownDeviceId
ownUserId == "@own"
ownDeviceId == "d1"
\* to-device messages that arrive in a run
MaxMessages == 2
\* devices in the "m.devices" of a call membership
MaxDevices == 2

VARIABLES
    timeline,                \* this._timeline: 0 is null, else the Timeline instance
    tl,                      \* per Timeline instance: lifecycle state and enableEncryption calls
    nCreated,                \* number of Timeline instances constructed so far
    notifyTimelineClosed,    \* calls of roomEncryption.notifyTimelineClosed()
    roomEncryption,          \* this._roomEncryption is set
    observedEvents,          \* this._observedEvents is set
    open,                    \* the invocations of openTimeline
    remoteEntries,           \* this._timeline.remoteEntries: the entry objects of the live timeline
    req,                     \* the DecryptionRequest of each owner, with its run's position
    entryDec,                \* decryption state of the entry object of each event
    groupSessionDecryptions, \* storage: committed content of the groupSessionDecryptions store
    timelineEvents,          \* storage: committed content of the timelineEvents store
    timelineFragments,       \* storage: committed content of the timelineFragments store
    pendingEvents,           \* storage: committed content of the pendingEvents store
    storageTxn,              \* storage: the active read-write transaction over these stores
    retry,                   \* the invocation of notifyRoomKey
    fill,                    \* the invocations of fillGap
    fragmentEntry,           \* the FragmentBoundaryEntry of the gap the fillGap calls are given
    comparer,                \* this._fragmentIdComparer
    chain,                   \* history: the fragments in the order they were linked in
    retry2,                  \* an invocation of notifyRoomKey made while another one runs
    observe,                 \* the invocation of observeEvent, with the observable it returns
    iterate,                 \* the invocation of iterateResponseStateEvents
    syncRetry,               \* the invocation of _getSyncRetryDecryptEntries, and its sync
    callHandler              \* the CallHandler: its calls, and the calls of each room member

roomVars == <<timeline, tl, nCreated, notifyTimelineClosed, roomEncryption, observedEvents,
              open, remoteEntries>>
timelineVars == <<timeline, tl, nCreated, notifyTimelineClosed, roomEncryption, observedEvents,
                  open>>
pipelineVars == <<req, entryDec, groupSessionDecryptions>>
storageVars == <<timelineEvents, timelineFragments, pendingEvents, storageTxn>>
retryVars == <<retry>>
extVars == <<retry2, observe, iterate, syncRetry, callHandler>>
fillVars == <<fill, fragmentEntry, comparer, chain>>

\* ------------------------------------------------------------ construction

IdleRequest ==
    [pc |-> "idle", source |-> "none", entries |-> << >>, inboundSessionTxn |-> "none",
     cancelled |-> FALSE, preparation |-> "null", results |-> {}, errors |-> {},
     isTimelineOpen |-> FALSE, stores |-> {}, writeTxn |-> "none", written |-> {},
     outcome |-> "none", error |-> "none", thrown |-> "none",
     \* history of the run, read by the properties only
     cancelPc |-> "none", prepDisposed |-> FALSE, rwTxns |-> 0, writeCalls |-> 0,
     applyCalls |-> 0, notifyCalls |-> 0, afterCancel |-> {},
     \* the calls the run has made, in the order it made them
     calls |-> << >>,
     decBefore |-> [e \in Events |-> "undecrypted"], storeBefore |-> {}]

IdleOpen == [pc |-> "idle", created |-> 0, result |-> 0, error |-> "none"]

NoTimeline == [state |-> "none", enableEncryption |-> 0]

\* BaseRoom.constructor
RoomInit ==
    /\ timeline = 0
    /\ tl = [i \in TimelineIds |-> NoTimeline]
    /\ nCreated = 0
    /\ notifyTimelineClosed = 0
    /\ roomEncryption = FALSE
    /\ observedEvents = FALSE
    /\ open = [c \in OpenCalls |-> IdleOpen]
    /\ remoteEntries = {}

PipelineInit ==
    /\ req = [r \in Owners |-> IdleRequest]
    /\ entryDec = [e \in Events |-> "undecrypted"]
    /\ groupSessionDecryptions = {}

\* ----------------------------------------------------------------- entries
\* A stored entry is [id, fragmentId, eventIndex, local]: the event, its position, and
\* whether the position is the local one of an event that awaits its remote echo.  An
\* entry object of the live timeline is [id, by, local]: `by` tells the objects of one
\* event apart by what constructed them.

entryIds(entries) == {entries[i].id : i \in DOMAIN entries}

\* the elements of a list
elements(list) == {list[i] : i \in DOMAIN list}

\* the ids of a set of entries
idsOf(entries) == {x.id : x \in entries}

\* the events txn.timelineEvents.getByEventId finds
storedIds == idsOf(timelineEvents)

\* the events the live timeline holds an entry for
remoteIds == idsOf(remoteEntries)

\* Timeline.load(): one entry object per stored entry
loadedEntries == {[id |-> x.id, by |-> "load", local |-> x.local] : x \in timelineEvents}

\* Timeline.replaceEntries(entries): an entry takes the place of the timeline's entry
\* for the same event; an entry for an event the timeline does not hold is dropped
Timeline_replaceEntries(remote, entries) ==
    {x \in remote : x.id \notin idsOf(entries)} \cup {u \in entries : u.id \in idsOf(remote)}

\* Timeline.addOrReplaceEntries(entries): as replaceEntries, and an entry for an event
\* the timeline does not hold is added
Timeline_addOrReplaceEntries(remote, entries) ==
    {x \in remote : x.id \notin idsOf(entries)} \cup entries

\* ------------------------------------------------------- timeline lifecycle

isTimelineOpen == timeline # 0

closeCallbackAlwaysNotifiesMutant ==
    /\ timeline' = 0
    /\ notifyTimelineClosed' = notifyTimelineClosed + 1

\* the closeCallback handed to the Timeline: clears the room's reference, whichever
\* instance it holds, and tells the room encryption
closeCallback ==
    /\ timeline' = 0
    /\ notifyTimelineClosed' = IF roomEncryption THEN notifyTimelineClosed + 1
                                                 ELSE notifyTimelineClosed

\* Timeline.dispose(): tears the instance down and invokes its close callback
Timeline_dispose(i) ==
    /\ tl' = [tl EXCEPT ![i].state = "disposed"]
    /\ remoteEntries' = {}
    /\ closeCallback

setEncryptionAppliesMutant ==
    TRUE

\* _setEncryption, the condition of line 111: a room encryption is given and the room
\* has none yet
setEncryptionApplies ==
    ~roomEncryption

\* _setEncryption(roomEncryption) with a room encryption, as load() and sync call it;
\* it returns false and changes nothing when the room has one already
setEncryption ==
    /\ IF setEncryptionApplies
          THEN /\ roomEncryption' = TRUE
               /\ tl' = IF timeline # 0
                           THEN [tl EXCEPT ![timeline].enableEncryption = @ + 1]
                           ELSE tl
          ELSE UNCHANGED <<roomEncryption, tl>>
    /\ UNCHANGED <<timeline, nCreated, notifyTimelineClosed, observedEvents, open, remoteEntries>>

openTimelineGuardMutant(c) ==
    FALSE

openTimelineRejectsLoadedMutant(c) ==
    timeline # 0 /\ tl[timeline].state = "loaded"

\* openTimeline, the check of line 390: the call fails when the room has a timeline
openTimelineRejects(c) ==
    timeline # 0

\* openTimeline from the call to the await of timeline.load()
openTimeline(c) ==
    /\ open[c].pc = "idle"
    /\ IF openTimelineRejects(c)
          THEN /\ open' = [open EXCEPT ![c] = [pc |-> "failed", created |-> 0, result |-> 0,
                                                error |-> "not dealing with load race here for now"]]
               /\ UNCHANGED <<timeline, tl, nCreated, notifyTimelineClosed>>
          ELSE /\ nCreated < MaxTimelines
               /\ nCreated' = nCreated + 1
               /\ timeline' = nCreated + 1
               /\ tl' = [tl EXCEPT ![nCreated + 1] =
                            [state |-> "loading",
                             enableEncryption |-> IF roomEncryption THEN 1 ELSE 0]]
               /\ open' = [open EXCEPT ![c] = [pc |-> "load", created |-> nCreated + 1,
                                                result |-> 0, error |-> "none"]]
               /\ UNCHANGED notifyTimelineClosed
    /\ UNCHANGED <<roomEncryption, observedEvents, remoteEntries>>

\* openTimeline when enableEncryption throws (line 409): the catch block runs before
\* the call has been suspended, disposes the Timeline just constructed and rethrows
openTimelineEnableFailed(c) ==
    /\ open[c].pc = "idle"
    /\ ~openTimelineRejects(c)
    /\ roomEncryption
    /\ nCreated < MaxTimelines
    /\ nCreated' = nCreated + 1
    /\ tl' = [tl EXCEPT ![nCreated + 1] = [state |-> "disposed", enableEncryption |-> 1]]
    /\ remoteEntries' = {}
    /\ closeCallback
    /\ open' = [open EXCEPT ![c] = [pc |-> "failed", created |-> nCreated + 1, result |-> 0,
                                     error |-> "enableError"]]
    /\ UNCHANGED <<roomEncryption, observedEvents>>

\* timeline.load() resolved, having read the stored events into the Timeline it was
\* called on: openTimeline returns this._timeline
openTimelineLoaded(c) ==
    /\ open[c].pc = "load"
    /\ remoteEntries' = IF open[c].created = timeline THEN loadedEntries ELSE remoteEntries
    /\ open' = [open EXCEPT ![c].pc = "returned", ![c].result = timeline]
    /\ tl' = [tl EXCEPT ![open[c].created].state =
                 IF @ = "loading" THEN "loaded" ELSE @]
    /\ UNCHANGED <<timeline, nCreated, notifyTimelineClosed, roomEncryption, observedEvents>>

\* timeline.load() rejected: the catch block disposes this._timeline and rethrows
openTimelineLoadFailed(c) ==
    /\ open[c].pc = "load"
    /\ IF timeline = 0
          THEN \* this._timeline is null: the dispose call itself throws
               /\ open' = [open EXCEPT ![c].pc = "failed", ![c].error = "TypeError"]
               /\ UNCHANGED <<timeline, tl, notifyTimelineClosed, remoteEntries>>
          ELSE /\ open' = [open EXCEPT ![c].pc = "failed", ![c].error = "loadError"]
               /\ Timeline_dispose(timeline)
    /\ UNCHANGED <<nCreated, roomEncryption, observedEvents>>

\* the consumer of a returned Timeline disposes it
disposeTimeline(i) ==
    /\ tl[i].state # "disposed"
    /\ \E c \in OpenCalls : open[c].pc = "returned" /\ open[c].result = i
    /\ Timeline_dispose(i)
    /\ UNCHANGED <<nCreated, roomEncryption, observedEvents, open>>

\* BaseRoom.dispose()
dispose ==
    /\ timeline # 0
    /\ Timeline_dispose(timeline)
    /\ UNCHANGED <<nCreated, roomEncryption, observedEvents, open>>

\* the caller of openTimeline is done with the settled call
openTimelineSettled(c) ==
    /\ open[c].pc \in {"returned", "failed"}
    /\ open' = [open EXCEPT ![c] = IdleOpen]
    /\ UNCHANGED <<timeline, tl, nCreated, notifyTimelineClosed, roomEncryption, observedEvents,
                   remoteEntries>>

\* the entries of the live timeline for the events of S, in event order
RECURSIVE timelineEntries(_)
timelineEntries(S) ==
    IF S = {} THEN << >>
    ELSE LET e == CHOOSE x \in S : \A y \in S : x <= y
         IN  <<[id |-> e, origin |-> "timeline"]>> \o timelineEntries(S \ {e})

\* ------------------------------------------------------ decryption pipeline
\* _decryptEntries(source, entries, inboundSessionTxn, log): each action below is the
\* run of the async function of lines 126-162 from one await to the next.

\* the run makes a call
Call(q, what) == [q EXCEPT !.calls = Append(@, what)]

Resolved(q) == [q EXCEPT !.pc = "done", !.outcome = "resolved"]
Rejected(q, err) == [q EXCEPT !.pc = "done", !.outcome = "rejected", !.error = err]

\* a side effect of the run, recorded when it happens on a request that is cancelled
Effect(q, what) == IF q.cancelled THEN [q EXCEPT !.afterCancel = @ \cup {what}] ELSE q

cancelledCheckMutant(q) ==
    FALSE

\* `if (r.cancelled) return;` (lines 130, 135, 138)
cancelledCheck(q) ==
    q.cancelled

\* lines 131-134: the ciphertext events of the batch go to prepareDecryptAll
callPrepareDecryptAll(q) ==
    IF ~roomEncryption
        THEN Rejected(q, "TypeError")   \* this._roomEncryption is null
        ELSE Call([q EXCEPT !.pc = "prepareDecryptAll"], "prepareDecryptAll")

\* the event ids of the entries of the batch
batchIds(q) == {q.entries[i].id : i \in DOMAIN q.entries}

\* the events of the batch whose entry is the live timeline's own entry object
timelineObjects(q) ==
    {q.entries[i].id : i \in {j \in DOMAIN q.entries : q.entries[j].origin = "timeline"}}

\* line 131: entries.filter(entry => entry.eventType === EVENT_ENCRYPTED_TYPE)
encryptedEntries(q) == {e \in batchIds(q) : eventType(e) = EVENT_ENCRYPTED_TYPE}

\* _decryptEntries is called: the DecryptionRequest is constructed and its function
\* runs up to its first await
decryptEntries(r, source, entries, txn) ==
    /\ req[r].pc = "idle"
    /\ LET q == [IdleRequest EXCEPT !.source = source, !.entries = entries,
                     !.inboundSessionTxn = txn, !.outcome = "pending",
                     !.decBefore = entryDec, !.storeBefore = groupSessionDecryptions]
       IN  req' = [req EXCEPT ![r] =
                      IF txn = "none"
                          THEN Call([q EXCEPT !.pc = "readTxn"], "readTxn")
                          ELSE IF cancelledCheck(q) THEN Resolved(q)
                                                    ELSE callPrepareDecryptAll(q)]
    /\ UNCHANGED <<entryDec, groupSessionDecryptions>>

readTxnOpenedUncheckedMutant(r) ==
    /\ req[r].pc = "readTxn"
    /\ req' = [req EXCEPT ![r] =
                  callPrepareDecryptAll([req[r] EXCEPT !.inboundSessionTxn = "own"])]
    /\ UNCHANGED <<entryDec, groupSessionDecryptions>>

\* line 128 resumes: the read transaction over inboundGroupSessions is open
readTxnOpened(r) ==
    /\ req[r].pc = "readTxn"
    /\ LET q == [req[r] EXCEPT !.inboundSessionTxn = "own"]
       IN  req' = [req EXCEPT ![r] =
                      IF cancelledCheck(q) THEN Resolved(q) ELSE callPrepareDecryptAll(q)]
    /\ UNCHANGED <<entryDec, groupSessionDecryptions>>

\* line 134 resumes: r.preparation is assigned, then preparation.decrypt() is called
prepareDecryptAllResolved(r) ==
    /\ req[r].pc = "prepareDecryptAll"
    /\ LET q == [req[r] EXCEPT !.preparation = "held"]
       IN  req' = [req EXCEPT ![r] =
                      IF cancelledCheck(q) THEN Resolved(q)
                                           ELSE Call([q EXCEPT !.pc = "decrypt"], "decrypt")]
    /\ UNCHANGED <<entryDec, groupSessionDecryptions>>

\* prepareDecryptAll rejects: the run ends rejected
prepareDecryptAllRejected(r) ==
    /\ req[r].pc = "prepareDecryptAll"
    /\ req' = [req EXCEPT ![r] = Rejected(req[r], "prepareError")]
    /\ UNCHANGED <<entryDec, groupSessionDecryptions>>

decryptResolvedThrowsMutant(r) ==
    /\ req[r].pc = "decrypt"
    /\ \E ok \in SUBSET encryptedEntries(req[r]) :
        LET q == [req[r] EXCEPT !.results = ok, !.errors = encryptedEntries(req[r]) \ ok,
                      !.preparation = "null"]
        IN  req' = [req EXCEPT ![r] =
                       IF q.errors # {}
                           THEN Rejected(q, "decryptError")
                           ELSE Call([q EXCEPT
                                    !.pc = "readWriteTxn",
                                    !.isTimelineOpen = isTimelineOpen,
                                    !.stores = IF isTimelineOpen
                                                  THEN {"groupSessionDecryptions", "deviceIdentities"}
                                                  ELSE {"groupSessionDecryptions"},
                                    !.rwTxns = @ + 1], "readWriteTxn")]
    /\ UNCHANGED <<entryDec, groupSessionDecryptions>>

\* line 136 resumes with the DecryptionChanges: each ciphertext event of the batch is
\* either decrypted or has a decryption error; then lines 137-145
decryptResolved(r) ==
    /\ req[r].pc = "decrypt"
    /\ \E ok \in SUBSET encryptedEntries(req[r]) :
        LET q == [req[r] EXCEPT !.results = ok, !.errors = encryptedEntries(req[r]) \ ok,
                      !.preparation = "null"]
        IN  req' = [req EXCEPT ![r] =
                       IF cancelledCheck(q)
                           THEN Resolved(q)
                           ELSE Call([q EXCEPT
                                    !.pc = "readWriteTxn",
                                    !.isTimelineOpen = isTimelineOpen,
                                    !.stores = IF isTimelineOpen
                                                  THEN {"groupSessionDecryptions", "deviceIdentities"}
                                                  ELSE {"groupSessionDecryptions"},
                                    !.rwTxns = @ + 1], "readWriteTxn")]
    /\ UNCHANGED <<entryDec, groupSessionDecryptions>>

\* preparation.decrypt() rejects (a preparation disposed under it may): the run ends
\* rejected, line 137 is not reached
decryptRejected(r) ==
    /\ req[r].pc = "decrypt"
    /\ req' = [req EXCEPT ![r] = Rejected(req[r], "decryptError")]
    /\ UNCHANGED <<entryDec, groupSessionDecryptions>>

readWriteTxnOpenedCheckedMutant(r) ==
    /\ req[r].pc = "readWriteTxn"
    /\ req' = [req EXCEPT ![r] =
                  IF req[r].cancelled
                      THEN Resolved(req[r])
                      ELSE Call([req[r] EXCEPT !.pc = "write", !.writeTxn = "open",
                                !.writeCalls = @ + 1], "write")]
    /\ UNCHANGED <<entryDec, groupSessionDecryptions>>

\* line 145 resumes: the write transaction is open and changes.write is called
readWriteTxnOpened(r) ==
    /\ req[r].pc = "readWriteTxn"
    /\ req' = [req EXCEPT ![r] =
                  Call(Effect([req[r] EXCEPT !.pc = "write", !.writeTxn = "open",
                                   !.writeCalls = @ + 1], "write"), "write")]
    /\ UNCHANGED <<entryDec, groupSessionDecryptions>>

\* writeTxn.abort() discards what the transaction wrote
abort(q) == Call([q EXCEPT !.writeTxn = "aborted", !.written = {}], "abort")

catchCompletesMutant(q) ==
    Rejected([q EXCEPT !.writeTxn = "committed"], q.thrown)

\* lines 152-155: catch (err) { writeTxn.abort(); throw err; }, err being q.thrown
catch(q) ==
    Rejected(abort(q), q.thrown)

writeResolvedRereadsMutant(r) ==
    /\ req[r].pc = "write"
    /\ LET q == [req[r] EXCEPT !.written = req[r].results]
       IN  req' = [req EXCEPT ![r] =
                      IF isTimelineOpen
                          THEN Call([q EXCEPT !.pc = "verifySenders"], "verifySenders")
                          ELSE Call([q EXCEPT !.pc = "complete"], "complete")]
    /\ UNCHANGED <<entryDec, groupSessionDecryptions>>

\* line 148 resumes: changes.write wrote the decryptions of the decrypted events
writeResolved(r) ==
    /\ req[r].pc = "write"
    /\ LET q == [req[r] EXCEPT !.written = req[r].results]
       IN  req' = [req EXCEPT ![r] =
                      IF q.isTimelineOpen
                          THEN Call([q EXCEPT !.pc = "verifySenders"], "verifySenders")
                          ELSE Call([q EXCEPT !.pc = "complete"], "complete")]
    /\ UNCHANGED <<entryDec, groupSessionDecryptions>>

\* changes.write throws after having written some of the decryptions
writeRejected(r) ==
    /\ req[r].pc = "write"
    /\ \E part \in SUBSET req[r].results :
        /\ part # req[r].results \/ req[r].results = {}
        /\ req' = [req EXCEPT ![r] = catch([req[r] EXCEPT !.written = part, !.thrown = "writeError"])]
    /\ UNCHANGED <<entryDec, groupSessionDecryptions>>

\* line 150 resumes
verifySendersResolved(r) ==
    /\ req[r].pc = "verifySenders"
    /\ req' = [req EXCEPT ![r] = Call([req[r] EXCEPT !.pc = "complete"], "complete")]
    /\ UNCHANGED <<entryDec, groupSessionDecryptions>>

\* decryption.verifySenders throws
verifySendersRejected(r) ==
    /\ req[r].pc = "verifySenders"
    /\ req' = [req EXCEPT ![r] = catch([req[r] EXCEPT !.thrown = "verifyError"])]
    /\ UNCHANGED <<entryDec, groupSessionDecryptions>>

\* decryption.applyToEntries(entries): the entry objects of the batch take the outcome;
\* entryDec holds the state of the timeline's entry objects
applyToEntries(q) ==
    [e \in Events |->
        IF e \in timelineObjects(q) /\ e \in q.results THEN "decrypted"
        ELSE IF e \in timelineObjects(q) /\ e \in q.errors THEN "failed"
        ELSE entryDec[e]]

\* the decryption state of an entry object of the batch that was created for the batch
\* from its storage entry
copyDec(q, e) ==
    IF q.applyCalls > 0 /\ e \in q.results THEN "decrypted"
    ELSE IF q.applyCalls > 0 /\ e \in q.errors THEN "failed"
    ELSE "undecrypted"

\* line 156 resumes: the transaction is committed; lines 158-161
completeResolved(r) ==
    /\ req[r].pc = "complete"
    /\ groupSessionDecryptions' = groupSessionDecryptions \cup req[r].written
    /\ entryDec' = applyToEntries(req[r])
    /\ LET q1 == Call(Effect(Effect([req[r] EXCEPT !.writeTxn = "committed",
                                         !.applyCalls = @ + 1], "commit"), "applyToEntries"),
                      "applyToEntries")
           q2 == IF observedEvents
                    THEN Call(Effect([q1 EXCEPT !.notifyCalls = @ + 1], "updateEvents"),
                              "updateEvents")
                    ELSE q1
       IN  req' = [req EXCEPT ![r] = Resolved(q2)]

completeRejectedAppliesMutant(r) ==
    /\ req[r].pc = "complete"
    /\ entryDec' = applyToEntries(req[r])
    /\ req' = [req EXCEPT ![r] =
                  Rejected(Call([req[r] EXCEPT !.writeTxn = "aborted", !.written = {},
                                     !.applyCalls = @ + 1], "applyToEntries"),
                           "commitError")]
    /\ UNCHANGED groupSessionDecryptions

\* writeTxn.complete() rejects: the transaction did not commit, nothing is applied
completeRejected(r) ==
    /\ req[r].pc = "complete"
    /\ req' = [req EXCEPT ![r] = Rejected([req[r] EXCEPT !.writeTxn = "aborted", !.written = {}],
                                          "commitError")]
    /\ UNCHANGED <<entryDec, groupSessionDecryptions>>

\* DecryptionRequest.dispose()
DecryptionRequest_dispose(r) ==
    /\ req[r].pc # "idle"
    /\ ~req[r].cancelled
    /\ req' = [req EXCEPT ![r].cancelled = TRUE,
                          ![r].cancelPc = req[r].pc,
                          ![r].prepDisposed = (req[r].preparation = "held")]
    /\ UNCHANGED <<entryDec, groupSessionDecryptions>>

\* the holder drops a settled request
requestSettled(r) ==
    /\ req[r].pc = "done"
    /\ req' = [req EXCEPT ![r] = IdleRequest]
    /\ UNCHANGED <<entryDec, groupSessionDecryptions>>

\* one step of the run of r's request
pipelineStep(r) ==
    \/ readTxnOpened(r)
    \/ prepareDecryptAllResolved(r)
    \/ prepareDecryptAllRejected(r)
    \/ decryptResolved(r)
    \/ decryptRejected(r)
    \/ readWriteTxnOpened(r)
    \/ writeResolved(r)
    \/ writeRejected(r)
    \/ verifySendersResolved(r)
    \/ verifySendersRejected(r)
    \/ completeResolved(r)
    \/ completeRejected(r)

\* observeEvent creates the ObservedEventMap; releasing its last observable clears it
observeEvent ==
    /\ ~observedEvents
    /\ observedEvents' = TRUE
    /\ UNCHANGED <<timeline, tl, nCreated, notifyTimelineClosed, roomEncryption, open,
                   remoteEntries>>

observedEventsReleased ==
    /\ observedEvents
    /\ observedEvents' = FALSE
    /\ UNCHANGED <<timeline, tl, nCreated, notifyTimelineClosed, roomEncryption, open,
                   remoteEntries>>

\* ------------------------------------------------------------- observeEvent

\* `returned` tells that observeEvent has handed the observable to its caller, `value`
\* what the observable holds: nothing yet, the timeline's entry, the entry made from the
\* storage entry, or undefined
IdleObserve ==
    [pc |-> "idle", eventId |-> 0, returned |-> FALSE, value |-> "none",
     \* history of the call, read by the properties only
     reads |-> 0, updates |-> 0, warned |-> FALSE, thrown |-> FALSE]

\* observeEvent(eventId), lines 424-444: the map is made if there is none, the entry is
\* looked up in the timeline, and the observable is returned; without an entry
\* _readEventById is called and runs up to its await of the read transaction
observeEventCall(eventId) ==
    /\ observe.pc = "idle"
    /\ observedEvents' = TRUE
    /\ LET entry == timeline # 0 /\ eventId \in remoteIds
       IN  observe' = IF entry
                         THEN [IdleObserve EXCEPT !.pc = "done", !.eventId = eventId,
                                                  !.returned = TRUE, !.value = "timeline"]
                         ELSE [IdleObserve EXCEPT !.pc = "readTxn", !.eventId = eventId,
                                                  !.returned = TRUE, !.reads = 1]
    /\ UNCHANGED <<timeline, tl, nCreated, notifyTimelineClosed, roomEncryption, open,
                   remoteEntries, retry2, iterate, syncRetry, pipelineVars, storageVars, retryVars,
                   fillVars, callHandler>>

readEventByIdFailedThrowsMutant(o) ==
    [o EXCEPT !.pc = "done", !.thrown = TRUE]

\* lines 439-441: .catch(err => console.warn(...)) takes the rejection of _readEventById
readEventByIdFailed(o) ==
    [o EXCEPT !.pc = "done", !.warned = TRUE]

\* line 436: observable.update(entry) with what _readEventById resolved to
observableUpdate(o, entry) ==
    [o EXCEPT !.pc = "done", !.value = entry, !.updates = @ + 1]

\* line 451 resumes: the read transaction is open, getByEventId is called
readEventByIdTxnOpened ==
    /\ observe.pc = "readTxn"
    /\ observe' = [observe EXCEPT !.pc = "getByEventId"]
    /\ UNCHANGED <<roomVars, retry2, iterate, syncRetry, pipelineVars, storageVars, retryVars, fillVars, callHandler>>

\* the read transaction cannot be opened
readEventByIdTxnRejected ==
    /\ observe.pc = "readTxn"
    /\ observe' = readEventByIdFailed(observe)
    /\ UNCHANGED <<roomVars, retry2, iterate, syncRetry, pipelineVars, storageVars, retryVars, fillVars, callHandler>>

\* line 452 resumes with the storage entry: an event that is not stored resolves to
\* undefined, a stored one to its new EventEntry, after the decryption request that is
\* started for it when it is ciphertext (lines 453-459)
readEventByIdRead ==
    /\ observe.pc = "getByEventId"
    /\ IF observe.eventId \notin storedIds
          THEN /\ observe' = observableUpdate(observe, "undefined")
               /\ UNCHANGED pipelineVars
          ELSE IF eventType(observe.eventId) = EVENT_ENCRYPTED_TYPE
          THEN /\ decryptEntries("read", "Timeline",
                                 <<[id |-> observe.eventId, origin |-> "storage"]>>, "supplied")
               /\ observe' = [observe EXCEPT !.pc = "decrypt"]
          ELSE /\ observe' = observableUpdate(observe, "storage")
               /\ UNCHANGED pipelineVars
    /\ UNCHANGED <<roomVars, retry2, iterate, syncRetry, storageVars, retryVars, fillVars, callHandler>>

\* getByEventId rejects
readEventByIdReadRejected ==
    /\ observe.pc = "getByEventId"
    /\ observe' = readEventByIdFailed(observe)
    /\ UNCHANGED <<roomVars, retry2, iterate, syncRetry, pipelineVars, storageVars, retryVars, fillVars, callHandler>>

\* line 457 resumes: the decryption request has settled
readEventByIdDecrypted ==
    /\ observe.pc = "decrypt"
    /\ req["read"].pc = "done"
    /\ observe' = IF req["read"].outcome = "rejected"
                      THEN readEventByIdFailed(observe)
                      ELSE observableUpdate(observe, "storage")
    /\ UNCHANGED <<roomVars, retry2, iterate, syncRetry, pipelineVars, storageVars, retryVars, fillVars, callHandler>>

\* the caller releases the observable of a call whose background load has ended, and
\* the map with it
observeEventReleased ==
    /\ observe.pc = "done"
    /\ observe' = IdleObserve
    /\ observedEvents' = FALSE
    /\ req' = [req EXCEPT !["read"] = IdleRequest]
    /\ UNCHANGED <<timeline, tl, nCreated, notifyTimelineClosed, roomEncryption, open,
                   remoteEntries, retry2, iterate, syncRetry, entryDec, groupSessionDecryptions,
                   storageVars, retryVars, fillVars, callHandler>>

\* ----------------------------------------------------------- notifyRoomKey

\* the session keys a notifyRoomKey call may announce; every ciphertext event of the
\* room was encrypted with the session of K1, K2 is the key of another session
RoomKeys == {"K1", "K2"}
sessionKey(e) == "K1"

\* the eventIds arrays handed to notifyRoomKey
EventIdLists == UNION {[1..n -> Events] : n \in 0..MaxEventIds}

IdleRetry ==
    [pc |-> "idle", roomKey |-> "none", eventIds |-> << >>, retryEntries |-> << >>,
     outcome |-> "none",
     \* history of the call, read by the properties only
     requests |-> 0, emits |-> 0, replaced |-> {}, summaryWrites |-> 0, changed |-> FALSE]

\* roomEncryption.filterUndecryptedEventEntriesForKeys(entries, keys): the encrypted,
\* not yet decrypted entries whose session is the one of one of the keys
filterUndecryptedEventEntriesForKeys(entries, keys) ==
    {e \in entries : /\ eventType(e) = EVENT_ENCRYPTED_TYPE
                     /\ entryDec[e] # "decrypted"
                     /\ sessionKey(e) \in keys}

\* _eventIdsToEntries(eventIds, txn): one new EventEntry per listed id that is stored
RECURSIVE eventIdsToEntries(_)
eventIdsToEntries(eventIds) ==
    IF eventIds = << >> THEN << >>
    ELSE (IF Head(eventIds) \in storedIds
             THEN <<[id |-> Head(eventIds), origin |-> "storage"]>>
             ELSE << >>) \o eventIdsToEntries(Tail(eventIds))

getAdditionalNoFilterMutant(otherRetryEntries, roomKeys) ==
    timelineEntries(filterUndecryptedEventEntriesForKeys(remoteIds, roomKeys))

\* _getAdditionalTimelineRetryEntries(otherRetryEntries, roomKeys)
getAdditionalTimelineRetryEntries(otherRetryEntries, roomKeys) ==
    LET retryTimelineEntries == filterUndecryptedEventEntriesForKeys(remoteIds, roomKeys)
        existingIds == entryIds(otherRetryEntries)
    IN  timelineEntries({e \in retryTimelineEntries : e \notin existingIds})

\* notifyRoomKey(roomKey, eventIds, log) up to its first await (lines 80-87)
notifyRoomKey(roomKey, eventIds) ==
    /\ retry.pc = "idle"
    /\ retry' = IF ~roomEncryption
                   THEN [IdleRetry EXCEPT !.pc = "done", !.roomKey = roomKey,
                                          !.eventIds = eventIds, !.outcome = "resolved"]
                   ELSE [IdleRetry EXCEPT !.pc = "readTxn", !.roomKey = roomKey,
                                          !.eventIds = eventIds, !.outcome = "pending"]
    /\ UNCHANGED <<roomVars, pipelineVars, storageVars, fillVars>>

\* line 84 resumes: the read transaction is open, _eventIdsToEntries reads the entries
notifyRoomKeyTxnOpened ==
    /\ retry.pc = "readTxn"
    /\ retry' = [retry EXCEPT !.pc = "eventIdsToEntries"]
    /\ UNCHANGED <<roomVars, pipelineVars, storageVars, fillVars>>

\* line 88 resumes with the stored entries; lines 89-96 add the timeline's entries and
\* start the decryption request of the batch, if there is a batch
notifyRoomKeyEntriesRead ==
    /\ retry.pc = "eventIdsToEntries"
    /\ LET stored == eventIdsToEntries(retry.eventIds)
           retryEntries ==
               IF timeline # 0
                   THEN stored \o getAdditionalTimelineRetryEntries(stored, {retry.roomKey})
                   ELSE stored
           \* roomKey and eventIds are not read again by the call
           call == [retry EXCEPT !.retryEntries = retryEntries,
                                 !.roomKey = "none", !.eventIds = << >>]
       IN  IF Len(retryEntries) > 0
               THEN /\ decryptEntries("retry", "Retry", retryEntries, "supplied")
                    /\ retry' = [call EXCEPT !.pc = "decrypt", !.requests = @ + 1]
               ELSE /\ retry' = [call EXCEPT !.pc = "done", !.outcome = "resolved"]
                    /\ UNCHANGED pipelineVars
    /\ UNCHANGED <<roomVars, storageVars, fillVars>>

\* the entry objects notifyRoomKey made from storage entries
retryObjects(q) ==
    {[id |-> e, by |-> "retry", local |-> FALSE] : e \in batchIds(q) \ timelineObjects(q)}

\* this._timeline.replaceEntries(retryEntries): the decryption state of the timeline's
\* entries afterwards
replacedEntryDec(q) ==
    [e \in Events |->
        IF e \in remoteIds /\ e \in batchIds(q) /\ e \notin timelineObjects(q)
            THEN copyDec(q, e)
            ELSE entryDec[e]]

notifyRoomKeyDecryptedNoOptionalMutant ==
    /\ retry.pc = "decrypt"
    /\ req["retry"].pc = "done"
    /\ IF req["retry"].outcome = "rejected" \/ timeline = 0
          THEN /\ retry' = [retry EXCEPT !.pc = "done", !.outcome = "rejected"]
               /\ UNCHANGED <<entryDec, remoteEntries>>
          ELSE /\ retry' = [retry EXCEPT !.pc = "writeSummary", !.summaryWrites = @ + 1,
                               !.replaced = batchIds(req["retry"]) \cap remoteIds]
               /\ entryDec' = replacedEntryDec(req["retry"])
               /\ remoteEntries' =
                      Timeline_replaceEntries(remoteEntries, retryObjects(req["retry"]))
    /\ UNCHANGED <<req, groupSessionDecryptions, storageVars, fillVars>>
    /\ UNCHANGED <<timeline, tl, nCreated, notifyTimelineClosed, roomEncryption, observedEvents,
                   open>>

\* line 96 resumes: the request has settled; lines 98-104
notifyRoomKeyDecrypted ==
    /\ retry.pc = "decrypt"
    /\ req["retry"].pc = "done"
    /\ IF req["retry"].outcome = "rejected"
          THEN /\ retry' = [retry EXCEPT !.pc = "done", !.outcome = "rejected"]
               /\ UNCHANGED <<entryDec, remoteEntries>>
          ELSE /\ retry' = [retry EXCEPT !.pc = "writeSummary", !.summaryWrites = @ + 1,
                               !.replaced = IF timeline # 0
                                               THEN batchIds(req["retry"]) \cap remoteIds
                                               ELSE {}]
               /\ entryDec' = IF timeline # 0 THEN replacedEntryDec(req["retry"]) ELSE entryDec
               /\ remoteEntries' =
                      IF timeline # 0
                          THEN Timeline_replaceEntries(remoteEntries, retryObjects(req["retry"]))
                          ELSE remoteEntries
    /\ UNCHANGED <<req, groupSessionDecryptions, storageVars, fillVars>>
    /\ UNCHANGED <<timeline, tl, nCreated, notifyTimelineClosed, roomEncryption, observedEvents,
                   open>>

summaryWrittenEmitsMutant(changed) ==
    TRUE

\* line 104: if (await this._summary.writeAndApplyData(changes, this._storage))
summaryWrittenEmits(changed) ==
    changed

\* line 104 resumes with whether the summary changed; line 105 calls _emitUpdate, which
\* emits "change" and the collection change once each
notifyRoomKeySummaryWritten ==
    /\ retry.pc = "writeSummary"
    /\ \E changed \in BOOLEAN :
          retry' = [retry EXCEPT !.pc = "done", !.outcome = "resolved",
                                 !.changed = changed,
                                 !.emits = IF summaryWrittenEmits(changed) THEN @ + 1 ELSE @]
    /\ UNCHANGED <<roomVars, pipelineVars, storageVars, fillVars>>

\* the caller of notifyRoomKey is done with the settled call
notifyRoomKeySettled ==
    /\ retry.pc = "done"
    /\ retry' = IdleRetry
    /\ req' = [req EXCEPT !["retry"] = IdleRequest]
    /\ UNCHANGED <<entryDec, groupSessionDecryptions, roomVars, storageVars, fillVars>>

\* A second invocation of notifyRoomKey, made while the first one may be running: the
\* same function, with the locals of this invocation in retry2 and its request held
\* as "retry2".

\* lines 80-87
notifyRoomKey2(roomKey, eventIds) ==
    /\ retry2.pc = "idle"
    /\ retry2' = IF ~roomEncryption
                    THEN [IdleRetry EXCEPT !.pc = "done", !.roomKey = roomKey,
                                           !.eventIds = eventIds, !.outcome = "resolved"]
                    ELSE [IdleRetry EXCEPT !.pc = "readTxn", !.roomKey = roomKey,
                                           !.eventIds = eventIds, !.outcome = "pending"]
    /\ UNCHANGED <<observe, iterate, syncRetry, roomVars, pipelineVars, storageVars, retryVars, fillVars, callHandler>>

\* line 84 resumes
notifyRoomKey2TxnOpened ==
    /\ retry2.pc = "readTxn"
    /\ retry2' = [retry2 EXCEPT !.pc = "eventIdsToEntries"]
    /\ UNCHANGED <<observe, iterate, syncRetry, roomVars, pipelineVars, storageVars, retryVars, fillVars, callHandler>>

\* line 88 resumes; lines 89-96
notifyRoomKey2EntriesRead ==
    /\ retry2.pc = "eventIdsToEntries"
    /\ LET stored == eventIdsToEntries(retry2.eventIds)
           retryEntries ==
               IF timeline # 0
                   THEN stored \o getAdditionalTimelineRetryEntries(stored, {retry2.roomKey})
                   ELSE stored
           call == [retry2 EXCEPT !.retryEntries = retryEntries,
                                  !.roomKey = "none", !.eventIds = << >>]
       IN  IF Len(retryEntries) > 0
               THEN /\ decryptEntries("retry2", "Retry", retryEntries, "supplied")
                    /\ retry2' = [call EXCEPT !.pc = "decrypt", !.requests = @ + 1]
               ELSE /\ retry2' = [call EXCEPT !.pc = "done", !.outcome = "resolved"]
                    /\ UNCHANGED pipelineVars
    /\ UNCHANGED <<observe, iterate, syncRetry, roomVars, storageVars, retryVars, fillVars, callHandler>>

\* line 96 resumes; lines 98-104
notifyRoomKey2Decrypted ==
    /\ retry2.pc = "decrypt"
    /\ req["retry2"].pc = "done"
    /\ IF req["retry2"].outcome = "rejected"
          THEN /\ retry2' = [retry2 EXCEPT !.pc = "done", !.outcome = "rejected"]
               /\ UNCHANGED <<entryDec, remoteEntries>>
          ELSE /\ retry2' = [retry2 EXCEPT !.pc = "writeSummary", !.summaryWrites = @ + 1,
                                !.replaced = IF timeline # 0
                                                THEN batchIds(req["retry2"]) \cap remoteIds
                                                ELSE {}]
               /\ entryDec' = IF timeline # 0 THEN replacedEntryDec(req["retry2"]) ELSE entryDec
               /\ remoteEntries' =
                      IF timeline # 0
                          THEN Timeline_replaceEntries(remoteEntries, retryObjects(req["retry2"]))
                          ELSE remoteEntries
    /\ UNCHANGED <<req, groupSessionDecryptions, storageVars, retryVars, fillVars, observe,
                   iterate, syncRetry, callHandler>>
    /\ UNCHANGED <<timeline, tl, nCreated, notifyTimelineClosed, roomEncryption, observedEvents,
                   open>>

\* line 104 resumes; line 105
notifyRoomKey2SummaryWritten ==
    /\ retry2.pc = "writeSummary"
    /\ \E changed \in BOOLEAN :
          retry2' = [retry2 EXCEPT !.pc = "done", !.outcome = "resolved",
                                   !.changed = changed,
                                   !.emits = IF summaryWrittenEmits(changed) THEN @ + 1 ELSE @]
    /\ UNCHANGED <<observe, iterate, syncRetry, roomVars, pipelineVars, storageVars, retryVars, fillVars, callHandler>>

\* ------------------------------------------------------- FragmentIdComparer
\* The comparer's code is not part of the sources; it is modelled from its contract:
\* add(fragment) records the fragment's links and rebuilds the rank map by walking the
\* previousId / nextId chain, and compare(a, b) compares ranks, never ids.

FragmentIds == 1..MaxFragments

\* the previousId / nextId of a fragment without neighbour
NoFragment == 0

fragmentLinks(f) == [id |-> f.id, previousId |-> f.previousId, nextId |-> f.nextId]

\* the ids met when following nextId from id
RECURSIVE walk(_, _, _)
walk(fragments, id, visited) ==
    IF id = NoFragment \/ id \in visited \/ id \notin idsOf(fragments)
        THEN << >>
        ELSE LET f == CHOOSE x \in fragments : x.id = id
             IN  <<id>> \o walk(fragments, f.nextId, visited \cup {id})

\* rebuild(fragments): the chain is walked from the one fragment whose predecessor is
\* not known; a chain that does not reach every fragment leaves nothing comparable
FragmentIdComparer_rebuild(fragments) ==
    LET heads == {f \in fragments : f.previousId \notin idsOf(fragments)}
        order == IF Cardinality(heads) = 1
                     THEN walk(fragments, (CHOOSE f \in heads : TRUE).id, {})
                     ELSE << >>
    IN  [fragments |-> fragments,
         order |-> IF Len(order) = Cardinality(fragments) THEN order ELSE << >>]

\* add(fragment)
FragmentIdComparer_add(cmp, fragment) ==
    FragmentIdComparer_rebuild(
        {x \in cmp.fragments : x.id # fragment.id} \cup {fragmentLinks(fragment)})

\* compare(fragmentIdA, fragmentIdB)
compare(cmp, a, b) ==
    LET known == {cmp.order[i] : i \in DOMAIN cmp.order}
        rank(id) == CHOOSE i \in DOMAIN cmp.order : cmp.order[i] = id
    IN  IF a \notin known \/ b \notin known THEN "unknown"
        ELSE IF rank(a) < rank(b) THEN "before"
        ELSE IF rank(a) > rank(b) THEN "after"
        ELSE "equal"

RECURSIVE addAll(_, _)
addAll(cmp, fragments) ==
    IF fragments = << >> THEN cmp
    ELSE addAll(FragmentIdComparer_add(cmp, Head(fragments)), Tail(fragments))

addFragmentsMutant(fragments) ==
    comparer

\* lines 285-287: for (const fragment of gapResult.fragments) comparer.add(fragment)
addFragments(fragments) ==
    addAll(comparer, fragments)

\* A write that linked a new fragment with the given id in at one end of the chain has
\* committed, and its fragments are added to the comparer as fillGap adds them
linkFragment(id, atStart) ==
    /\ id \notin idsOf(comparer.fragments)
    /\ LET old == IF atStart THEN Head(chain) ELSE chain[Len(chain)]
           oldLinks == CHOOSE x \in comparer.fragments : x.id = old
           changed == IF atStart THEN [oldLinks EXCEPT !.previousId = id]
                                 ELSE [oldLinks EXCEPT !.nextId = id]
           new == IF atStart
                     THEN [id |-> id, previousId |-> NoFragment, nextId |-> old]
                     ELSE [id |-> id, previousId |-> old, nextId |-> NoFragment]
       IN  /\ comparer' = addFragments(<<changed, new>>)
           /\ chain' = IF atStart THEN <<id>> \o chain ELSE Append(chain, id)
    /\ UNCHANGED <<fill, fragmentEntry, roomVars, pipelineVars, storageVars, retryVars>>

\* ------------------------------------------------------------------ gap fill
\* fillGap(fragmentEntry, amount, log), lines 238-297.  GapWriter, the homeserver and
\* the storage transaction are not part of the sources and are modelled from their
\* contract.

Amounts == 1..MaxAmount

NoResponse == [start |-> 0, chunk |-> << >>, end |-> 0]
NoResult ==
    [entries |-> << >>, updatedEntries |-> << >>, fragments |-> << >>,
     fragmentEntry |-> [fragmentId |-> NoFragment, token |-> 0, edgeReached |-> FALSE]]
NoTxn == [holder |-> "none", timelineEvents |-> {}, timelineFragments |-> {}]

IdleFill ==
    [pc |-> "idle", from |-> 0, amount |-> 0, response |-> NoResponse,
     extraGapFillChanges |-> FALSE, gapResult |-> NoResult, txn |-> "none",
     outcome |-> "none", error |-> "none", thrown |-> "none",
     \* history of the call, read by the properties only
     requests |-> 0, txns |-> 0, effects |-> {},
     \* what the call has done since it asked its transaction to complete, in order
     calls |-> << >>]

\* the fragment the room starts with, with the gap at its start
liveFragment ==
    [id |-> 1, previousId |-> NoFragment, nextId |-> NoFragment, token |-> 0,
     edgeReached |-> FALSE]

\* the stored entries of events that arrived by sync
storedEntries(S) ==
    {[id |-> e, fragmentId |-> liveFragment.id, eventIndex |-> e, local |-> FALSE] : e \in S}

\* the stored entries of events sent from here whose remote echo has not arrived
localEntries(S) ==
    {[id |-> e, fragmentId |-> liveFragment.id, eventIndex |-> e, local |-> TRUE] : e \in S}

StorageInit(entries, pending) ==
    /\ timelineEvents = entries
    /\ pendingEvents = pending
    /\ timelineFragments = {liveFragment}
    /\ storageTxn = NoTxn

FillInit ==
    /\ fill = [c \in FillCalls |-> IdleFill]
    /\ fragmentEntry = [fragmentId |-> liveFragment.id, token |-> liveFragment.token,
                        edgeReached |-> liveFragment.edgeReached]
    /\ comparer = FragmentIdComparer_rebuild({fragmentLinks(liveFragment)})
    /\ chain = <<liveFragment.id>>

\* hsApi.messages(roomId, {from, dir, limit}).response(): the page of at most `limit`
\* events that follows the token, and the token of the page after it
messages(from, limit) ==
    LET end == IF from + limit < NumEvents THEN from + limit ELSE NumEvents
    IN  [start |-> from, chunk |-> [i \in 1..(end - from) |-> from + i], end |-> end]

\* the lowest event index of a fragment, 0 for a fragment without entries
minIndex(entries, fragmentId) ==
    LET idx == {x.eventIndex : x \in {y \in entries : y.fragmentId = fragmentId}} \cup {0}
    IN  CHOOSE m \in idx : \A k \in idx : m <= k

\* GapWriter.writeFragmentFill(fragmentEntry, response, txn) on the transaction's view
\* st of the stores.  An event of the page that matches a PendingEvent by transaction id
\* is a remote echo: its local entry gets the server-assigned position and is reported in
\* updatedEntries.  Any other event is reported in entries and, unless the store holds an
\* entry for its id already, written at the next position of the target fragment, or of
\* a new fragment linked before it when the page needs one (newFragment).  The target
\* is the fragment that has the gap in the transaction's view, and the fragment entry
\* with the new token is part of the result.
GapWriter_writeFragmentFill(st, response, newFragment) ==
    LET chunk == response.chunk
        isEcho(e) == e \in pendingEvents
        notEcho(e) == e \notin pendingEvents
        needsPosition(e) ==
            \/ e \notin idsOf(st.timelineEvents)
            \/ isEcho(e) /\ \E x \in st.timelineEvents : x.id = e /\ x.local
        toPlace == SelectSeq(chunk, needsPosition)
        target == CHOOSE f \in st.timelineFragments : f.previousId = NoFragment
        used == idsOf(st.timelineFragments)
        newId == (CHOOSE m \in used : \A k \in used : k <= m) + 1
        created == newFragment /\ toPlace # << >> /\ newId \in FragmentIds
        into == IF created THEN newId ELSE target.id
        base == minIndex(st.timelineEvents, into)
        placed == {[id |-> toPlace[k], fragmentId |-> into, eventIndex |-> base - k,
                    local |-> FALSE] : k \in DOMAIN toPlace}
        edgeReached == response.end = NumEvents
        changed == IF created
                       THEN [target EXCEPT !.previousId = newId]
                       ELSE [target EXCEPT !.token = response.end,
                                           !.edgeReached = edgeReached]
        new == [id |-> newId, previousId |-> NoFragment, nextId |-> target.id,
                token |-> response.end, edgeReached |-> edgeReached]
    IN  [timelineEvents |->
             {x \in st.timelineEvents : x.id \notin elements(toPlace)} \cup placed,
         timelineFragments |->
             ((st.timelineFragments \ {target}) \cup {changed})
                 \cup (IF created THEN {new} ELSE {}),
         gapResult |->
             [entries |-> SelectSeq(chunk, notEcho),
              updatedEntries |-> SelectSeq(chunk, isEcho),
              fragments |-> IF created THEN <<changed, new>> ELSE << >>,
              fragmentEntry |-> [fragmentId |-> into, token |-> response.end,
                                 edgeReached |-> edgeReached]]]

\* the entry objects a fill makes for the events of a result list
gapObjects(c, ids) == {[id |-> e, by |-> c, local |-> FALSE] : e \in elements(ids)}

\* the batch fillGap hands to _decryptEntries: gapResult.entries
gapBatch(ids) == [i \in DOMAIN ids |-> [id |-> ids[i], origin |-> "gap"]]

FillResolved(f) == [f EXCEPT !.pc = "done", !.outcome = "resolved"]
FillRejected(f, err) == [f EXCEPT !.pc = "done", !.outcome = "rejected", !.error = err]

fillGapNeverReturnsEarlyMutant(entry) ==
    FALSE

\* line 244: if (fragmentEntry.edgeReached)
fillGapReturnsEarly(entry) ==
    entry.edgeReached

\* lines 238-256: an entry whose edge is reached returns at once, else the page that
\* follows the entry's token is requested
fillGap(c, amount) ==
    /\ fill[c].pc = "idle"
    /\ fill' = [fill EXCEPT ![c] =
                   IF fillGapReturnsEarly(fragmentEntry)
                       THEN FillResolved(IdleFill)
                       ELSE [IdleFill EXCEPT !.pc = "messages", !.outcome = "pending",
                                              !.from = fragmentEntry.token,
                                              !.amount = amount, !.requests = 1]]
    /\ UNCHANGED <<fragmentEntry, comparer, chain, roomVars, pipelineVars, storageVars,
                   retryVars>>

messagesFailureMutant(f) ==
    [f EXCEPT !.pc = "readWriteTxn"]

\* lines 248-256: the await of the response is in no try block, a failed request
\* rejects fillGap
messagesFailure(f) ==
    FillRejected(f, f.thrown)

\* line 248 resumes with the response; line 258 asks for the transaction
messagesResolved(c) ==
    /\ fill[c].pc = "messages"
    /\ fill' = [fill EXCEPT ![c].pc = "readWriteTxn",
                            ![c].response = messages(fill[c].from, fill[c].amount)]
    /\ UNCHANGED <<fragmentEntry, comparer, chain, roomVars, pipelineVars, storageVars,
                   retryVars>>

\* the request failed
messagesRejected(c) ==
    /\ fill[c].pc = "messages"
    /\ fill' = [fill EXCEPT ![c] = messagesFailure([fill[c] EXCEPT !.thrown = "networkError"])]
    /\ UNCHANGED <<fragmentEntry, comparer, chain, roomVars, pipelineVars, storageVars,
                   retryVars>>

fillTxnOpenedNoWaitMutant(c) ==
    /\ fill[c].pc = "readWriteTxn"
    /\ storageTxn' = [holder |-> c, timelineEvents |-> timelineEvents,
                      timelineFragments |-> timelineFragments]
    /\ fill' = [fill EXCEPT ![c].pc = "writeGapFill", ![c].txn = "open",
                            ![c].txns = @ + 1]
    /\ UNCHANGED <<fragmentEntry, comparer, chain, roomVars, pipelineVars, retryVars,
                   timelineEvents, timelineFragments, pendingEvents>>

\* line 258 resumes: the transaction over pendingEvents, timelineEvents and
\* timelineFragments runs once no other transaction over these stores does;
\* _writeGapFill is called
fillTxnOpened(c) ==
    /\ fill[c].pc = "readWriteTxn"
    /\ storageTxn.holder = "none"
    /\ storageTxn' = [holder |-> c, timelineEvents |-> timelineEvents,
                      timelineFragments |-> timelineFragments]
    /\ fill' = [fill EXCEPT ![c].pc = "writeGapFill", ![c].txn = "open",
                            ![c].txns = @ + 1]
    /\ UNCHANGED <<fragmentEntry, comparer, chain, roomVars, pipelineVars, retryVars,
                   timelineEvents, timelineFragments, pendingEvents>>

\* line 267 resumes: _writeGapFill returned (BaseRoom's returns nothing, a subclass its
\* changes); the GapWriter is made and writeFragmentFill called
writeGapFillResolved(c) ==
    /\ fill[c].pc = "writeGapFill"
    /\ \E changes \in BOOLEAN :
          fill' = [fill EXCEPT ![c].pc = "writeFragmentFill",
                               ![c].extraGapFillChanges = changes]
    /\ UNCHANGED <<fragmentEntry, comparer, chain, roomVars, pipelineVars, storageVars,
                   retryVars>>

fillCatchStoresMutant(st) ==
    [timelineEvents |-> st.timelineEvents, timelineFragments |-> st.timelineFragments]

\* lines 275-278, txn.abort(): the stores keep their committed content
fillCatchStores(st) ==
    [timelineEvents |-> timelineEvents, timelineFragments |-> timelineFragments]

\* lines 275-278: catch (err) { txn.abort(); throw err; }
fillCatch(c, f, st) ==
    /\ fill' = [fill EXCEPT ![c] = FillRejected([f EXCEPT !.txn = "aborted"], f.thrown)]
    /\ timelineEvents' = fillCatchStores(st).timelineEvents
    /\ timelineFragments' = fillCatchStores(st).timelineFragments
    /\ storageTxn' = NoTxn
    /\ UNCHANGED <<pendingEvents, fragmentEntry, comparer, chain, roomVars, pipelineVars,
                   retryVars>>

\* _writeGapFill of a subclass throws
writeGapFillRejected(c) ==
    /\ fill[c].pc = "writeGapFill"
    /\ fillCatch(c, [fill[c] EXCEPT !.thrown = "writeGapFillError"], storageTxn)

\* line 274 resumes with the gapResult; line 279 asks the transaction to complete
writeFragmentFillResolved(c) ==
    /\ fill[c].pc = "writeFragmentFill"
    /\ \E newFragment \in BOOLEAN :
          LET w == GapWriter_writeFragmentFill(storageTxn, fill[c].response, newFragment)
          IN  /\ storageTxn' = [storageTxn EXCEPT
                                   !.timelineEvents = w.timelineEvents,
                                   !.timelineFragments = w.timelineFragments]
              /\ fill' = [fill EXCEPT ![c].pc = "complete", ![c].gapResult = w.gapResult]
    /\ UNCHANGED <<fragmentEntry, comparer, chain, roomVars, pipelineVars, retryVars,
                   timelineEvents, timelineFragments, pendingEvents>>

\* writeFragmentFill throws, having written the first n events of the page
writeFragmentFillRejected(c) ==
    /\ fill[c].pc = "writeFragmentFill"
    /\ \E n \in 0..(Len(fill[c].response.chunk) - 1) :
          LET part == [fill[c].response EXCEPT !.chunk = SubSeq(@, 1, n)]
              w == GapWriter_writeFragmentFill(storageTxn, part, FALSE)
          IN  fillCatch(c, [fill[c] EXCEPT !.thrown = "writeFragmentFillError"],
                        [storageTxn EXCEPT !.timelineEvents = w.timelineEvents])

fillTimelinePushMutant(c, f) ==
    Timeline_replaceEntries(remoteEntries, gapObjects(c, f.gapResult.updatedEntries))
        \cup gapObjects(c, f.gapResult.entries)

fillTimelineNoReplaceMutant(c, f) ==
    Timeline_addOrReplaceEntries(remoteEntries, gapObjects(c, f.gapResult.entries))

\* lines 291-294: this._timeline.replaceEntries(gapResult.updatedEntries), then
\* this._timeline.addOrReplaceEntries(gapResult.entries)
fillTimeline(c, f) ==
    Timeline_addOrReplaceEntries(
        Timeline_replaceEntries(remoteEntries, gapObjects(c, f.gapResult.updatedEntries)),
        gapObjects(c, f.gapResult.entries))

\* the decryption state of the timeline's entry objects after lines 291-294
fillEntryDec(c, f) ==
    [e \in Events |->
        IF e \in elements(f.gapResult.entries) THEN copyDec(req[c], e)
        ELSE IF e \in elements(f.gapResult.updatedEntries) /\ e \in remoteIds
                 THEN "undecrypted"
        ELSE entryDec[e]]

\* lines 284-295 in the order of the code: comparer.add for each fragment of the
\* result, _applyGapFill if there are changes, and with a timeline replaceEntries, then
\* addOrReplaceEntries
fillApplyCalls(f) ==
    [i \in DOMAIN f.gapResult.fragments |-> "comparer.add"]
        \o (IF f.extraGapFillChanges THEN <<"applyGapFill">> ELSE << >>)
        \o (IF timeline # 0 THEN <<"replaceEntries", "addOrReplaceEntries">> ELSE << >>)

\* lines 284-296, once the transaction is committed and the entries are decrypted: the
\* in-memory state is updated, the fragment entry among it, and fillGap returns
fillApply(c, f) ==
    /\ comparer' = addFragments(f.gapResult.fragments)
    /\ fragmentEntry' = f.gapResult.fragmentEntry
    /\ remoteEntries' = IF timeline # 0 THEN fillTimeline(c, f) ELSE remoteEntries
    /\ entryDec' = IF timeline # 0 THEN fillEntryDec(c, f) ELSE entryDec
    /\ fill' = [fill EXCEPT ![c] =
                   FillResolved([f EXCEPT !.effects =
                       @ \cup (IF f.gapResult.fragments # << >> THEN {"add"} ELSE {})
                         \cup (IF f.extraGapFillChanges THEN {"applyGapFill"} ELSE {})
                         \cup (IF timeline # 0 THEN {"timeline"} ELSE {}),
                       !.calls = @ \o fillApplyCalls(f)])]

\* line 279 resumes: the transaction has committed.  An encrypted room starts the
\* decryption request of the new entries (lines 280-283), else lines 284-296 run
fillTxnCompleted(c) ==
    /\ fill[c].pc = "complete"
    /\ timelineEvents' = storageTxn.timelineEvents
    /\ timelineFragments' = storageTxn.timelineFragments
    /\ storageTxn' = NoTxn
    /\ chain' = IF fill[c].gapResult.fragments # << >>
                   THEN <<fill[c].gapResult.fragments[2].id>> \o chain
                   ELSE chain
    /\ LET f == [fill[c] EXCEPT !.txn = "committed", !.effects = @ \cup {"commit"},
                                 !.calls = Append(@, "committed")]
       IN  IF roomEncryption
               THEN /\ decryptEntries(c, "Timeline", gapBatch(f.gapResult.entries), "none")
                    /\ fill' = [fill EXCEPT ![c] = [f EXCEPT !.pc = "decrypt",
                                                             !.calls = Append(@, "decryptEntries")]]
                    /\ UNCHANGED <<comparer, remoteEntries, fragmentEntry>>
               ELSE /\ fillApply(c, f)
                    /\ UNCHANGED <<req, groupSessionDecryptions>>
    /\ UNCHANGED <<timelineVars, pendingEvents, retryVars>>

\* txn.complete() rejects: nothing was committed, and fillGap rejects
fillTxnCompleteRejected(c) ==
    /\ fill[c].pc = "complete"
    /\ storageTxn' = NoTxn
    /\ fill' = [fill EXCEPT ![c] = FillRejected([fill[c] EXCEPT !.txn = "failed"],
                                                "commitError")]
    /\ UNCHANGED <<fragmentEntry, comparer, chain, roomVars, pipelineVars, retryVars,
                   timelineEvents, timelineFragments, pendingEvents>>

fillDecryptedNoWaitMutant(c) ==
    /\ fill[c].pc = "decrypt"
    /\ fillApply(c, fill[c])
    /\ UNCHANGED <<timelineVars, req, groupSessionDecryptions, storageVars, chain, retryVars>>

\* line 282 resumes: the decryption request has settled
fillDecrypted(c) ==
    /\ fill[c].pc = "decrypt"
    /\ req[c].pc = "done"
    /\ IF req[c].outcome = "rejected"
          THEN /\ fill' = [fill EXCEPT ![c] = FillRejected(fill[c], req[c].error)]
               /\ UNCHANGED <<comparer, remoteEntries, entryDec, fragmentEntry>>
          ELSE fillApply(c, [fill[c] EXCEPT !.calls = Append(@, "decrypted")])
    /\ UNCHANGED <<timelineVars, req, groupSessionDecryptions, storageVars, chain, retryVars>>

\* ---------------------------------------------- _getSyncRetryDecryptEntries
\* _getSyncRetryDecryptEntries(newKeys, roomEncryption, txn), lines 167-187, and the use
\* the sync makes of the entries it returns.  The sync itself and
\* roomEncryption.getEventIdsForMissingKey are not part of the sources.

\* the newKeys arrays of a sync
KeyLists == {<<"K1">>, <<"K2">>, <<"K1", "K2">>, <<"K2", "K1">>}

\* what getEventIdsForMissingKey resolves to for a key: nothing, or a list of event ids
MissingKeyEventIds ==
    {[found |-> FALSE, ids |-> << >>]}
        \cup {[found |-> TRUE, ids |-> l] : l \in {<< >>} \cup {<<e>> : e \in Events}}

IdleSync ==
    [pc |-> "idle", newKeys |-> << >>, retryEventIds |-> << >>, retryEntries |-> << >>,
     results |-> {}, errors |-> {}, outcome |-> "none"]

\* lines 168-174: the stored entries of the events listed for each key, concatenated
RECURSIVE entriesPerKey(_)
entriesPerKey(retryEventIds) ==
    IF retryEventIds = << >> THEN << >>
    ELSE (IF Head(retryEventIds).found THEN eventIdsToEntries(Head(retryEventIds).ids)
                                       ELSE << >>)
             \o entriesPerKey(Tail(retryEventIds))

cloneEntriesMutant(entries) ==
    entries

\* line 182: retryTimelineEntries.map(e => e.clone())
cloneEntries(entries) ==
    [i \in DOMAIN entries |-> [entries[i] EXCEPT !.origin = "clone"]]

\* the call up to its awaits of getEventIdsForMissingKey and _eventIdsToEntries
getSyncRetryDecryptEntries(newKeys, retryEventIds) ==
    /\ syncRetry.pc = "idle"
    /\ Len(retryEventIds) = Len(newKeys)
    /\ syncRetry' = [IdleSync EXCEPT !.pc = "entriesPerKey", !.newKeys = newKeys,
                                     !.retryEventIds = retryEventIds,
                                     !.outcome = "pending"]
    /\ UNCHANGED <<retry2, observe, iterate, roomVars, pipelineVars, storageVars, retryVars,
                   fillVars, callHandler>>

\* line 168 resumes with the entries per key; lines 174-186 add clones of the
\* timeline's entries for the keys and return.  Without a room encryption line 66 throws
getSyncRetryEntriesRead ==
    /\ syncRetry.pc = "entriesPerKey"
    /\ LET stored == entriesPerKey(syncRetry.retryEventIds)
           call == [syncRetry EXCEPT !.newKeys = << >>, !.retryEventIds = << >>]
       IN  syncRetry' =
               IF timeline = 0
                   THEN [call EXCEPT !.pc = "returned", !.retryEntries = stored,
                                     !.outcome = "resolved"]
               ELSE IF ~roomEncryption
                   THEN [call EXCEPT !.pc = "done", !.outcome = "rejected"]
               ELSE [call EXCEPT !.pc = "returned", !.outcome = "resolved",
                                 !.retryEntries =
                                     stored \o cloneEntries(getAdditionalTimelineRetryEntries(
                                                   stored, elements(syncRetry.newKeys)))]
    /\ UNCHANGED <<retry2, observe, iterate, roomVars, pipelineVars, storageVars, retryVars,
                   fillVars, callHandler>>

\* the returned batch with the outcome of its decryption, as applyToEntries takes it
syncBatch(ok) ==
    [entries |-> syncRetry.retryEntries, results |-> ok,
     errors |-> {e \in entryIds(syncRetry.retryEntries) :
                    eventType(e) = EVENT_ENCRYPTED_TYPE} \ ok,
     applyCalls |-> 1]

\* writeSync: the sync decrypts the returned batch and applies the outcome to the entry
\* objects of the batch
syncWrite ==
    /\ syncRetry.pc = "returned"
    /\ \E ok \in SUBSET {e \in entryIds(syncRetry.retryEntries) :
                             eventType(e) = EVENT_ENCRYPTED_TYPE} :
          /\ entryDec' = applyToEntries(syncBatch(ok))
          /\ syncRetry' = [syncRetry EXCEPT !.pc = "written", !.results = ok,
                                            !.errors = syncBatch(ok).errors]
    /\ UNCHANGED <<retry2, observe, iterate, roomVars, req, groupSessionDecryptions,
                   storageVars, retryVars, fillVars, callHandler>>

\* the entry objects of the returned batch
syncObjects ==
    {[id |-> e, by |-> "sync", local |-> FALSE] : e \in entryIds(syncRetry.retryEntries)}

\* afterSync: the timeline takes the entries of the batch in place of its own
afterSync ==
    /\ syncRetry.pc = "written"
    /\ IF timeline # 0
          THEN /\ remoteEntries' = Timeline_replaceEntries(remoteEntries, syncObjects)
               /\ entryDec' = replacedEntryDec(syncBatch(syncRetry.results))
          ELSE UNCHANGED <<remoteEntries, entryDec>>
    /\ syncRetry' = [syncRetry EXCEPT !.pc = "done"]
    /\ UNCHANGED <<retry2, observe, iterate, timelineVars, req, groupSessionDecryptions,
                   storageVars, retryVars, fillVars, callHandler>>

\* the sync is over
syncSettled ==
    /\ syncRetry.pc = "done"
    /\ syncRetry' = IdleSync
    /\ UNCHANGED <<retry2, observe, iterate, roomVars, pipelineVars, storageVars, retryVars,
                   fillVars, callHandler>>

\* ----------------------------------------------- iterateResponseStateEvents
\* A section of a room response is absent, or holds a list of events.  An event is told
\* by its state_key, which is a string (the empty one too) or is not there.

StateKeys ==
    {[type |-> "string", value |-> ""], [type |-> "string", value |-> "1"],
     [type |-> "undefined", value |-> ""]}

ResponseEvents == {[state_key |-> k] : k \in StateKeys}

NoSection == [present |-> FALSE, events |-> << >>]

Sections ==
    {NoSection} \cup
        {[present |-> TRUE, events |-> ev] :
             ev \in UNION {[1..n -> ResponseEvents] : n \in 0..MaxSectionLen}}

RoomResponses == [state : Sections, timeline : Sections]

IdleIterate(roomResponse) ==
    [pc |-> "idle", roomResponse |-> roomResponse, called |-> << >>]

\* lines 559-563: the callback gets every event of state.events
RECURSIVE forEachStateEvent(_, _)
forEachStateEvent(stateEvents, i) ==
    IF i > Len(stateEvents) THEN << >>
    ELSE <<stateEvents[i]>> \o forEachStateEvent(stateEvents, i + 1)

isStateEventTruthyMutant(event) ==
    event.state_key.type = "string" /\ event.state_key.value # ""

\* line 569: typeof event.state_key === "string"
isStateEvent(event) ==
    event.state_key.type = "string"

\* lines 566-573: the callback gets the events of timeline.events that pass line 569
RECURSIVE forEachTimelineEvent(_, _)
forEachTimelineEvent(timelineEvts, i) ==
    IF i > Len(timelineEvts) THEN << >>
    ELSE (IF isStateEvent(timelineEvts[i]) THEN <<timelineEvts[i]>> ELSE << >>)
             \o forEachTimelineEvent(timelineEvts, i + 1)

\* iterateResponseStateEvents(roomResponse, callback): the arguments of the calls of
\* callback, in the order of the calls
iterateResponseStateEvents(roomResponse) ==
    (IF roomResponse.state.present
         THEN forEachStateEvent(roomResponse.state.events, 1) ELSE << >>)
    \o (IF roomResponse.timeline.present
            THEN forEachTimelineEvent(roomResponse.timeline.events, 1) ELSE << >>)

\* a call of iterateResponseStateEvents with a callback that records its arguments
iterateCall ==
    /\ iterate.pc = "idle"
    /\ iterate' = [iterate EXCEPT !.pc = "done",
                                  !.called = iterateResponseStateEvents(iterate.roomResponse)]
    /\ UNCHANGED <<retry2, observe, syncRetry, roomVars, pipelineVars, storageVars, retryVars, fillVars, callHandler>>

\* the caller of fillGap is done with the settled call
fillGapSettled(c) ==
    /\ fill[c].pc = "done"
    /\ fill' = [fill EXCEPT ![c] = IdleFill]
    /\ UNCHANGED <<fragmentEntry, comparer, chain, roomVars, pipelineVars, storageVars,
                   retryVars>>

\* -------------------------------------------------------------------- calls
\* getMemberKey joins the JSON strings of the two ids with a comma: a key names exactly
\* one (userId, deviceId) pair
getMemberKey(userId, deviceId) == <<userId, deviceId>>

\* the key starts with the JSON string of the user id and a comma
memberKeyIsForUser(key, userId) == key[1] = userId

getDeviceFromMemberKey(key) == key[2]

MemberKeys == {getMemberKey(userId, deviceId) : userId \in UserIds, deviceId \in DeviceIds}

\* no Member is stored under a key
NoMember == [present |-> FALSE, sessionId |-> "none", connected |-> FALSE, lastOp |-> "none"]

\* new Member(roomMember, device, options): it holds the session id of the device; lastOp
\* tells, while a handler runs, what it did with the object: "new" for a Member it
\* constructed, "update" for one it called updateCallInfo on
Member(device) ==
    [present |-> TRUE, sessionId |-> device.session_id, connected |-> FALSE, lastOp |-> "new"]

\* the entries of callMembership["m.devices"]
Devices == [device_id : DeviceIds, session_id : SessionIds]

RECURSIVE listsUpTo(_, _)
listsUpTo(S, n) ==
    IF n = 0 THEN {<< >>}
    ELSE LET shorter == listsUpTo(S, n - 1)
         IN  shorter \cup {Append(l, x) : l \in {s \in shorter : Len(s) = n - 1}, x \in S}

DeviceLists == listsUpTo(Devices, MaxDevices)

ShortDeviceLists == {<< >>} \cup {<<device>> : device \in Devices}

\* call id under which the CallHandler has no GroupCall
\* the invocations of join that may overlap on one call
JoinCalls == {"j1", "j2"}

\* no invocation of join
IdleJoin == [pc |-> "idle", accepted |-> FALSE, sent |-> FALSE, connected |-> FALSE]

NoCall ==
    [exists |-> FALSE, state |-> "none", terminated |-> FALSE, joinedData |-> FALSE,
     members |-> [key \in MemberKeys |-> NoMember],
     bufferedDeviceMessages |-> [key \in MemberKeys |-> << >>],
     delivered |-> << >>, disconnected |-> {},
     create |-> "idle", join |-> [j \in JoinCalls |-> IdleJoin], leave |-> "idle",
     acceptedJoins |-> 0, terminateSent |-> FALSE]

\* new GroupCall(id, newCall, callContent, roomId, options)
GroupCall(newCall, terminated) ==
    [NoCall EXCEPT !.exists = TRUE, !.terminated = terminated,
                   !.state = IF newCall THEN "fledgling" ELSE "created"]

\* the CallHandler as constructed: no call, no member event seen
CallHandlerInit ==
    [calls |-> [callId \in CallIds |-> NoCall],
     roomMemberToCallIds |-> [userId \in UserIds |-> {}],
     store |-> {},
     arrived |-> 0]

getDeviceIdsForUserId(g, userId) ==
    {getDeviceFromMemberKey(key) :
        key \in {k \in MemberKeys : g.members[k].present /\ memberKeyIsForUser(k, userId)}}

\* Member.handleDeviceMessage(message): the hand-over of a message to the member stored
\* under the key, recorded with the session id the member has
memberHandleDeviceMessage(g, key, handed, how) ==
    [g EXCEPT !.delivered =
        @ \o [i \in DOMAIN handed |->
                 [message |-> handed[i], sessionId |-> g.members[key].sessionId, how |-> how]]]

flushUncheckedMutant(g, key) ==
    LET flushed == memberHandleDeviceMessage(g, key, g.bufferedDeviceMessages[key], "flush")
    IN  [flushed EXCEPT !.bufferedDeviceMessages[key] = << >>]

\* the buffered messages of the member's key that carry the member's session id are
\* handed over in the order of the Set, which is the order they were added in
flushPendingIncomingDeviceMessages(g, key) ==
    LET member == g.members[key]
        bufferedMessages == g.bufferedDeviceMessages[key]
        matches(message) == message.sender_session_id = member.sessionId
        others(message) == ~matches(message)
        flushed == memberHandleDeviceMessage(g, key, SelectSeq(bufferedMessages, matches), "flush")
    IN  [flushed EXCEPT !.bufferedDeviceMessages[key] = SelectSeq(bufferedMessages, others)]

\* member.connect(localMedia, muteSettings)
connectToMember(g, key) == [g EXCEPT !.members[key].connected = TRUE]

\* member.disconnect(hangup) of the Member stored under the key
memberDisconnect(g, key) ==
    [g EXCEPT !.members[key].connected = FALSE,
              !.disconnected = @ \cup {[key |-> key, sessionId |-> g.members[key].sessionId]}]

disconnect(g) ==
    LET joined == g.state = "joined"
    IN  [g EXCEPT !.members = [key \in MemberKeys |->
                                  IF joined THEN [@[key] EXCEPT !.connected = FALSE] ELSE @[key]],
                  !.disconnected = IF joined
                                   THEN @ \cup {[key |-> key, sessionId |-> g.members[key].sessionId] :
                                                   key \in {k \in MemberKeys : g.members[k].present}}
                                   ELSE @,
                  !.state = IF joined THEN "created" ELSE @,
                  !.joinedData = FALSE,
                  !.acceptedJoins = 0]

removeOwnDevice(g) == disconnect(g)

removeMemberDeviceKeepsConnectionMutant(g, userId, deviceId) ==
    [g EXCEPT !.members[getMemberKey(userId, deviceId)] = NoMember]

removeMemberDevice(g, userId, deviceId) ==
    LET memberKey == getMemberKey(userId, deviceId)
    IN  IF g.members[memberKey].present
        THEN [memberDisconnect(g, memberKey) EXCEPT !.members[memberKey] = NoMember]
        ELSE g

RECURSIVE removeMemberDevices(_, _, _)
removeMemberDevices(g, userId, deviceIds) ==
    IF deviceIds = {} THEN g
    ELSE LET deviceId == CHOOSE d \in deviceIds : TRUE
         IN  removeMemberDevices(removeMemberDevice(g, userId, deviceId), userId,
                                 deviceIds \ {deviceId})

updateCallInfoReplacesMutant(g, key) ==
    [g EXCEPT !.members[key] = [@ EXCEPT !.connected = g.joinedData, !.lastOp = "new"]]

\* member.updateCallInfo(device) of the Member stored under the key
updateCallInfo(g, key) == [g EXCEPT !.members[key].lastOp = "update"]

\* the body of the loop of updateMembership over the devices of the membership
updateDeviceMembership(g, userId, device) ==
    LET memberKey == getMemberKey(userId, device.device_id)
        member == g.members[memberKey]
        sessionIdChanged == member.present /\ member.sessionId # device.session_id
        removed == IF sessionIdChanged
                   THEN [memberDisconnect(g, memberKey) EXCEPT !.members[memberKey] = NoMember]
                   ELSE g
        added == [removed EXCEPT !.members[memberKey] = Member(device)]
        updated == IF member.present /\ ~sessionIdChanged THEN updateCallInfo(g, memberKey)
                   ELSE IF g.joinedData THEN connectToMember(added, memberKey)
                   ELSE added
    IN  IF userId = ownUserId /\ device.device_id = ownDeviceId
        THEN IF g.state = "joining" THEN [g EXCEPT !.state = "joined"] ELSE g
        ELSE flushPendingIncomingDeviceMessages(updated, memberKey)

RECURSIVE updateDevices(_, _, _)
updateDevices(g, userId, devices) ==
    IF devices = << >> THEN g
    ELSE updateDevices(updateDeviceMembership(g, userId, Head(devices)), userId, Tail(devices))

updateMembership(g, userId, devices) ==
    LET previousDeviceIds == getDeviceIdsForUserId(g, userId)
        updated == updateDevices(g, userId, devices)
        newDeviceIds == {devices[i].device_id : i \in DOMAIN devices}
        removed == removeMemberDevices(updated, userId, previousDeviceIds \ newDeviceIds)
    IN  IF userId = ownUserId /\ ownDeviceId \notin newDeviceIds
        THEN removeOwnDevice(removed)
        ELSE removed

removeMembership(g, userId) ==
    LET removed == removeMemberDevices(g, userId, getDeviceIdsForUserId(g, userId))
    IN  IF userId = ownUserId THEN removeOwnDevice(removed) ELSE removed

\* GroupCall.handleDeviceMessage(message, userId, deviceId)
groupCallHandleDeviceMessage(g, message) ==
    LET key == getMemberKey(message.userId, message.deviceId)
        member == g.members[key]
    IN  IF member.present /\ message.sender_session_id = member.sessionId
        THEN memberHandleDeviceMessage(g, key, <<message>>, "immediate")
        ELSE [g EXCEPT !.bufferedDeviceMessages[key] = Append(@, message)]

updateCallEvent(g, terminated) ==
    [g EXCEPT !.terminated = terminated,
              !.state = IF @ = "creating" THEN "created" ELSE @]

\* the entries of a member event's "m.calls": a call id with the devices the user has in it
CallMemberships(callIds, deviceLists) == [call_id : callIds, devices : deviceLists]

\* the "m.calls" of a member event that lists one call at most, with any devices
OneCallLists(callIds) == {<< >>} \cup {<<call>> : call \in CallMemberships(callIds, DeviceLists)}

\* the same with one device at most
ShortCallLists(callIds) ==
    {<< >>} \cup {<<call>> : call \in CallMemberships(callIds, ShortDeviceLists)}

\* the device lists of the member events that list two calls
FirstSessionLists == {<< >>} \cup {<<[device_id |-> d, session_id |-> "s1"]>> : d \in DeviceIds}

\* the "m.calls" of a member event that lists both calls, in either order
TwoCallLists ==
    {<<a, b>> : a \in CallMemberships({"c1"}, FirstSessionLists),
                b \in CallMemberships({"c2"}, FirstSessionLists)} \cup
    {<<a, b>> : a \in CallMemberships({"c2"}, FirstSessionLists),
                b \in CallMemberships({"c1"}, FirstSessionLists)}

\* the first loop of handleCallMemberEvent, over the calls the event lists
RECURSIVE updateMemberships(_, _, _)
updateMemberships(calls, userId, listed) ==
    IF listed = << >> THEN calls
    ELSE LET call == Head(listed)
             groupCall == calls[call.call_id]
         IN  updateMemberships(
                 IF groupCall.exists
                 THEN [calls EXCEPT ![call.call_id] = updateMembership(groupCall, userId, call.devices)]
                 ELSE calls,
                 userId, Tail(listed))

\* each handler run starts a new record of the Member.disconnect calls it makes
startRun(calls) == [callId \in CallIds |-> [calls[callId] EXCEPT !.disconnected = {}]]

\* the handler has returned: what it did with a Member object is not kept in the state
endRun(handler) ==
    [handler EXCEPT !.calls = [callId \in CallIds |->
        [@[callId] EXCEPT !.members =
            [key \in MemberKeys |-> [@[key] EXCEPT !.lastOp = "none"]]]]]

removePreviousMemberships(calls, userId, previousCallIdsMemberOf, newCallIdsMemberOf) ==
    [callId \in CallIds |->
        IF callId \in previousCallIdsMemberOf \ newCallIdsMemberOf /\ calls[callId].exists
        THEN removeMembership(calls[callId], userId)
        ELSE calls[callId]]

\* the CallHandler after handleCallMemberEvent(event, roomId) for a member event of the user
afterCallMemberEvent(handler, userId, listed) ==
    LET newCallIdsMemberOf == {listed[i].call_id : i \in DOMAIN listed}
        previousCallIdsMemberOf == handler.roomMemberToCallIds[userId]
        updated == updateMemberships(startRun(handler.calls), userId, listed)
    IN  [handler EXCEPT
            !.calls = removePreviousMemberships(updated, userId,
                                                previousCallIdsMemberOf, newCallIdsMemberOf),
            !.roomMemberToCallIds[userId] = newCallIdsMemberOf]

\* CallHandler.handleCallMemberEvent(event, roomId) for a member event of the user
handleCallMemberEvent(userId, listed) ==
    /\ callHandler' = endRun(afterCallMemberEvent(callHandler, userId, listed))
    /\ UNCHANGED <<retry2, observe, iterate, syncRetry, roomVars, pipelineVars, storageVars,
                   retryVars, fillVars>>

\* an invocation of createCall, join or leave has not settled yet on the GroupCall
pending(g) ==
    \/ g.create \in {"sendState", "readWriteTxn", "complete"}
    \/ \E j \in JoinCalls : g.join[j].pc \in {"readTxn", "get", "sendState"}
    \/ g.leave \in {"readTxn", "get", "sendState", "terminate"}

\* a GroupCall taken out of the calls map: the object lives on for the invocations that
\* have not settled on it
removedFromMap(g) == IF pending(g) THEN [g EXCEPT !.exists = FALSE] ELSE NoCall

\* get hasJoined()
hasJoined(g) == g.state \in {"joining", "joined"}

\* CallHandler.createCall(roomId, type, name, intent) up to the await of the request of
\* call.create(type): the call gets a new id, is set in the calls map and goes from
\* fledgling to creating
createCall(callId) ==
    LET call == callHandler.calls[callId]
    IN  /\ call = NoCall /\ callId \notin callHandler.store
        /\ callHandler' = [callHandler EXCEPT !.calls =
               [startRun(@) EXCEPT ![callId] =
                   [GroupCall(TRUE, FALSE) EXCEPT !.state = "creating", !.create = "sendState"]]]
        /\ UNCHANGED <<retry2, observe, iterate, syncRetry, roomVars, pipelineVars, storageVars,
                       retryVars, fillVars>>

\* the catch block of createCall: the call id is removed from the calls map and the
\* error is thrown on; the outcome of the invocation stays recorded under the call id
createCallFailed(handler, callId) ==
    [handler EXCEPT !.calls[callId] =
        [removedFromMap([@ EXCEPT !.create = "rejected"]) EXCEPT !.create = "rejected"]]

\* the request of call.create is answered: the call is created, and createCall asks for
\* the transaction over the calls store
createSent(callId) ==
    /\ callHandler.calls[callId].create = "sendState"
    /\ callHandler' = [callHandler EXCEPT !.calls =
           [startRun(@) EXCEPT ![callId].state = "created", ![callId].create = "readWriteTxn"]]
    /\ UNCHANGED <<retry2, observe, iterate, syncRetry, roomVars, pipelineVars, storageVars,
                   retryVars, fillVars>>

\* the transaction is open: the call is added to the calls store in it, and the
\* transaction is asked to complete
createTxnOpened(callId) ==
    /\ callHandler.calls[callId].create = "readWriteTxn"
    /\ callHandler' = [callHandler EXCEPT !.calls =
           [startRun(@) EXCEPT ![callId].create = "complete"]]
    /\ UNCHANGED <<retry2, observe, iterate, syncRetry, roomVars, pipelineVars, storageVars,
                   retryVars, fillVars>>

\* the transaction has committed: createCall returns the call
createCompleted(callId) ==
    /\ callHandler.calls[callId].create = "complete"
    /\ callHandler' = [callHandler EXCEPT
           !.calls = [startRun(@) EXCEPT ![callId].create = "resolved"],
           !.store = @ \cup {callId}]
    /\ UNCHANGED <<retry2, observe, iterate, syncRetry, roomVars, pipelineVars, storageVars,
                   retryVars, fillVars>>

\* the request of call.create, the opening of the transaction or its commit rejects
createRejected(callId) ==
    /\ callHandler.calls[callId].create \in {"sendState", "readWriteTxn", "complete"}
    /\ callHandler' = createCallFailed([callHandler EXCEPT !.calls = startRun(@)], callId)
    /\ UNCHANGED <<retry2, observe, iterate, syncRetry, roomVars, pipelineVars, storageVars,
                   retryVars, fillVars>>

joinGuardDataOnlyMutant(g) ==
    g.joinedData

\* join, the check of line 122: the call returns at once
joinReturns(g) ==
    g.state # "created" \/ g.joinedData

\* GroupCall.join(localMedia) up to its first await, the read transaction of
\* _createJoinPayload: the joined data and the state joining are set before it
join(callId, j) ==
    LET call == startRun(callHandler.calls)[callId]
    IN  /\ call.exists /\ call.join[j].pc = "idle"
        /\ callHandler' = [callHandler EXCEPT !.calls = [startRun(@) EXCEPT ![callId] =
               IF joinReturns(call)
               THEN [call EXCEPT !.join[j] = [IdleJoin EXCEPT !.pc = "done"]]
               ELSE [call EXCEPT !.joinedData = TRUE, !.state = "joining",
                                 !.acceptedJoins = @ + 1,
                                 !.join[j] = [IdleJoin EXCEPT !.pc = "readTxn",
                                                              !.accepted = TRUE]]]]
        /\ UNCHANGED <<retry2, observe, iterate, syncRetry, roomVars, pipelineVars, storageVars,
                       retryVars, fillVars>>

\* the read transaction is open: the own member event is asked for
joinTxnOpened(callId, j) ==
    /\ callHandler.calls[callId].join[j].pc = "readTxn"
    /\ callHandler' = [callHandler EXCEPT !.calls =
           [startRun(@) EXCEPT ![callId].join[j].pc = "get"]]
    /\ UNCHANGED <<retry2, observe, iterate, syncRetry, roomVars, pipelineVars, storageVars,
                   retryVars, fillVars>>

\* the payload is made and the m.call.member event sent with hsApi.sendState
joinPayloadCreated(callId, j) ==
    /\ callHandler.calls[callId].join[j].pc = "get"
    /\ callHandler' = [callHandler EXCEPT !.calls =
           [startRun(@) EXCEPT ![callId].join[j].pc = "sendState",
                               ![callId].join[j].sent = TRUE]]
    /\ UNCHANGED <<retry2, observe, iterate, syncRetry, roomVars, pipelineVars, storageVars,
                   retryVars, fillVars>>

\* the request is answered: every member of the map is connected to, with the joined
\* data of this invocation
joinSent(callId, j) ==
    LET call == startRun(callHandler.calls)[callId]
    IN  /\ call.join[j].pc = "sendState"
        /\ callHandler' = [callHandler EXCEPT !.calls = [startRun(@) EXCEPT ![callId] =
               [call EXCEPT !.join[j].pc = "done", !.join[j].connected = TRUE,
                            !.members = [key \in MemberKeys |->
                                            IF @[key].present
                                            THEN [@[key] EXCEPT !.connected = TRUE]
                                            ELSE @[key]]]]]
        /\ UNCHANGED <<retry2, observe, iterate, syncRetry, roomVars, pipelineVars, storageVars,
                       retryVars, fillVars>>

\* one of the awaits of join rejects: join rejects, with the state and the joined data
\* as they are
joinRejected(callId, j) ==
    /\ callHandler.calls[callId].join[j].pc \in {"readTxn", "get", "sendState"}
    /\ callHandler' = [callHandler EXCEPT !.calls =
           [startRun(@) EXCEPT ![callId].join[j].pc = "done"]]
    /\ UNCHANGED <<retry2, observe, iterate, syncRetry, roomVars, pipelineVars, storageVars,
                   retryVars, fillVars>>

\* the caller of join is done with the settled call
joinSettled(callId, j) ==
    /\ callHandler.calls[callId].join[j].pc = "done"
    /\ callHandler' = [callHandler EXCEPT !.calls =
           [startRun(@) EXCEPT ![callId] = removedFromMap([@ EXCEPT !.join[j] = IdleJoin])]]
    /\ UNCHANGED <<retry2, observe, iterate, syncRetry, roomVars, pipelineVars, storageVars,
                   retryVars, fillVars>>

\* the finally block of leave: disconnect, and leave has settled
leaveDisconnects(g) == removedFromMap([disconnect(g) EXCEPT !.leave = "idle"])

\* GroupCall.leave() up to its first await, the read transaction of
\* _leaveCallMemberContent; without joined data it returns at once
leave(callId) ==
    LET call == callHandler.calls[callId]
    IN  /\ call.exists /\ call.leave = "idle"
        /\ call.joinedData
        /\ callHandler' = [callHandler EXCEPT !.calls =
               [startRun(@) EXCEPT ![callId].leave = "readTxn"]]
        /\ UNCHANGED <<retry2, observe, iterate, syncRetry, roomVars, pipelineVars, storageVars,
                       retryVars, fillVars>>

\* the read transaction is open: the own member event is asked for
leaveTxnOpened(callId) ==
    /\ callHandler.calls[callId].leave = "readTxn"
    /\ callHandler' = [callHandler EXCEPT !.calls =
           [startRun(@) EXCEPT ![callId].leave = "get"]]
    /\ UNCHANGED <<retry2, observe, iterate, syncRetry, roomVars, pipelineVars, storageVars,
                   retryVars, fillVars>>

\* the stored member event is read: if it lists the own device for this call, the event
\* without it is sent, else the call was left already and is disconnected
leaveContentRead(callId) ==
    /\ callHandler.calls[callId].leave = "get"
    /\ \E listsOwnDevice \in BOOLEAN :
          callHandler' = [callHandler EXCEPT !.calls = [startRun(@) EXCEPT ![callId] =
              IF listsOwnDevice THEN [@ EXCEPT !.leave = "sendState"]
              ELSE leaveDisconnects(@)]]
    /\ UNCHANGED <<retry2, observe, iterate, syncRetry, roomVars, pipelineVars, storageVars,
                   retryVars, fillVars>>

\* terminate, the check of line 212: a fledgling call sends nothing
terminateSends(g) == g.state # "fledgling"

\* the request is answered: a ringing call without members is terminated, which sends
\* the call event with m.terminated unless the call is fledgling; else the call is
\* disconnected
leaveSent(callId) ==
    LET call == startRun(callHandler.calls)[callId]
    IN  /\ call.leave = "sendState"
        /\ \E ring \in BOOLEAN :
              callHandler' = [callHandler EXCEPT !.calls = [startRun(@) EXCEPT ![callId] =
                  IF /\ ring
                     /\ \A key \in MemberKeys : ~call.members[key].present
                     /\ terminateSends(call)
                  THEN [call EXCEPT !.leave = "terminate", !.terminateSent = TRUE]
                  ELSE leaveDisconnects(call)]]
        /\ UNCHANGED <<retry2, observe, iterate, syncRetry, roomVars, pipelineVars, storageVars,
                       retryVars, fillVars>>

\* the request of terminate is answered
leaveTerminated(callId) ==
    /\ callHandler.calls[callId].leave = "terminate"
    /\ callHandler' = [callHandler EXCEPT !.calls =
           [startRun(@) EXCEPT ![callId] = leaveDisconnects(@)]]
    /\ UNCHANGED <<retry2, observe, iterate, syncRetry, roomVars, pipelineVars, storageVars,
                   retryVars, fillVars>>

\* one of the awaits of leave rejects: the finally block disconnects, and leave rejects
leaveRejected(callId) ==
    /\ callHandler.calls[callId].leave \in {"readTxn", "get", "sendState", "terminate"}
    /\ callHandler' = [callHandler EXCEPT !.calls =
           [startRun(@) EXCEPT ![callId] = leaveDisconnects(@)]]
    /\ UNCHANGED <<retry2, observe, iterate, syncRetry, roomVars, pipelineVars, storageVars,
                   retryVars, fillVars>>

\* GroupCall.terminate() called by the application: it sends the call event with
\* m.terminated unless the call is fledgling, and waits for the answer, after which
\* nothing is left to do
terminate(callId) ==
    LET call == callHandler.calls[callId]
    IN  /\ call.exists
        /\ ~call.terminateSent
        /\ callHandler' = [callHandler EXCEPT !.calls =
               [startRun(@) EXCEPT ![callId].terminateSent = terminateSends(call)]]
        /\ UNCHANGED <<retry2, observe, iterate, syncRetry, roomVars, pipelineVars, storageVars,
                       retryVars, fillVars>>

\* CallHandler.handleCallEvent(event, roomId, txn) for the call event of a call id
handleCallEvent(callId, terminated) ==
    LET calls == startRun(callHandler.calls)
        call == calls[callId]
    IN  /\ call.exists \/ ~pending(call)
        /\ callHandler' =
               IF call.exists
               THEN IF terminated
                    THEN [callHandler EXCEPT
                             !.calls = [calls EXCEPT ![callId] =
                                           removedFromMap(disconnect(updateCallEvent(call, terminated)))],
                                             !.store = @ \ {callId}]
                    ELSE [callHandler EXCEPT
                             !.calls = [calls EXCEPT ![callId] = updateCallEvent(call, terminated)]]
               ELSE [callHandler EXCEPT
                        !.calls = [calls EXCEPT ![callId] = GroupCall(FALSE, terminated)],
                        !.store = @ \cup {callId}]
        /\ UNCHANGED <<retry2, observe, iterate, syncRetry, roomVars, pipelineVars, storageVars,
                       retryVars, fillVars>>

\* the to-device messages: the id is the position in the order of arrival
Messages(id) ==
    [id : {id}, conf_id : CallIds, userId : UserIds, deviceId : DeviceIds,
     sender_session_id : SessionIds]

\* CallHandler.handleDeviceMessage(message, userId, deviceId)
handleDeviceMessage(message) ==
    LET calls == startRun(callHandler.calls)
        call == calls[message.conf_id]
    IN  /\ callHandler.arrived < MaxMessages
        /\ message.id = callHandler.arrived + 1
        /\ callHandler' =
               [callHandler EXCEPT
                   !.arrived = @ + 1,
                   !.calls = IF call.exists
                             THEN [calls EXCEPT ![message.conf_id] =
                                      groupCallHandleDeviceMessage(call, message)]
                             ELSE calls]
        /\ UNCHANGED <<retry2, observe, iterate, syncRetry, roomVars, pipelineVars, storageVars,
                       retryVars, fillVars>>

\* ------------------------------------------------------------ specifications
vars == <<timeline, tl, nCreated, notifyTimelineClosed, roomEncryption, observedEvents,
          open, remoteEntries, req, entryDec, groupSessionDecryptions, timelineEvents,
          timelineFragments, pendingEvents, storageTxn, retry, fill, fragmentEntry,
          comparer, chain, retry2, observe, iterate, syncRetry, callHandler>>

\* no observeEvent call and no iterateResponseStateEvents call has been made
ExtInit ==
    /\ retry2 = IdleRetry
    /\ observe = IdleObserve
    /\ iterate = IdleIterate([state |-> NoSection, timeline |-> NoSection])
    /\ syncRetry = IdleSync
    /\ callHandler = CallHandlerInit

\* the room as constructed, over a storage that holds no event of it yet
Init ==
    /\ RoomInit /\ PipelineInit /\ retry = IdleRetry /\ FillInit /\ ExtInit
    /\ StorageInit({}, {})

\* Spec: the decryption pipeline of one request at a time, started by any caller of
\* _decryptEntries, with the timeline opening and closing around it
Next ==
    \/ /\ \E S \in (SUBSET Events) \ {{}}, txn \in {"none", "supplied"} :
                decryptEntries("direct", "Timeline", timelineEntries(S), txn)
       /\ UNCHANGED <<roomVars, storageVars, retryVars, fillVars, extVars>>
    \/ readTxnOpened("direct") /\ UNCHANGED <<roomVars, storageVars, retryVars, fillVars, extVars>>
    \/ prepareDecryptAllResolved("direct") /\ UNCHANGED <<roomVars, storageVars, retryVars, fillVars, extVars>>
    \/ prepareDecryptAllRejected("direct") /\ UNCHANGED <<roomVars, storageVars, retryVars, fillVars, extVars>>
    \/ decryptResolved("direct") /\ UNCHANGED <<roomVars, storageVars, retryVars, fillVars, extVars>>
    \/ decryptRejected("direct") /\ UNCHANGED <<roomVars, storageVars, retryVars, fillVars, extVars>>
    \/ readWriteTxnOpened("direct") /\ UNCHANGED <<roomVars, storageVars, retryVars, fillVars, extVars>>
    \/ writeResolved("direct") /\ UNCHANGED <<roomVars, storageVars, retryVars, fillVars, extVars>>
    \/ writeRejected("direct") /\ UNCHANGED <<roomVars, storageVars, retryVars, fillVars, extVars>>
    \/ verifySendersResolved("direct") /\ UNCHANGED <<roomVars, storageVars, retryVars, fillVars, extVars>>
    \/ verifySendersRejected("direct") /\ UNCHANGED <<roomVars, storageVars, retryVars, fillVars, extVars>>
    \/ completeResolved("direct") /\ UNCHANGED <<roomVars, storageVars, retryVars, fillVars, extVars>>
    \/ completeRejected("direct") /\ UNCHANGED <<roomVars, storageVars, retryVars, fillVars, extVars>>
    \/ DecryptionRequest_dispose("direct") /\ UNCHANGED <<roomVars, storageVars, retryVars, fillVars, extVars>>
    \/ requestSettled("direct") /\ UNCHANGED <<roomVars, storageVars, retryVars, fillVars, extVars>>
    \/ openTimeline("a") /\ UNCHANGED <<pipelineVars, storageVars, retryVars, fillVars, extVars>>
    \/ openTimelineLoaded("a") /\ UNCHANGED <<pipelineVars, storageVars, retryVars, fillVars, extVars>>
    \/ dispose /\ UNCHANGED <<pipelineVars, storageVars, retryVars, fillVars, extVars>>
    \/ setEncryption /\ UNCHANGED <<pipelineVars, storageVars, retryVars, fillVars, extVars>>
    \/ observeEvent /\ UNCHANGED <<pipelineVars, storageVars, retryVars, fillVars, extVars>>
    \/ observedEventsReleased /\ UNCHANGED <<pipelineVars, storageVars, retryVars, fillVars, extVars>>

Spec == Init /\ [][Next]_vars

\* SpecRun: the run of one decryption request from its call to its end, disposed at any
\* point, with the timeline opening and closing and observers coming while it is
\* suspended
NextRun ==
    \/ /\ \E S \in (SUBSET Events) \ {{}}, txn \in {"none", "supplied"} :
                decryptEntries("direct", "Timeline", timelineEntries(S), txn)
       /\ UNCHANGED <<roomVars, storageVars, retryVars, fillVars, extVars>>
    \/ pipelineStep("direct") /\ UNCHANGED <<roomVars, storageVars, retryVars, fillVars, extVars>>
    \/ DecryptionRequest_dispose("direct") /\ UNCHANGED <<roomVars, storageVars, retryVars, fillVars, extVars>>
    \/ openTimeline("a") /\ UNCHANGED <<pipelineVars, storageVars, retryVars, fillVars, extVars>>
    \/ openTimelineLoaded("a") /\ UNCHANGED <<pipelineVars, storageVars, retryVars, fillVars, extVars>>
    \/ dispose /\ UNCHANGED <<pipelineVars, storageVars, retryVars, fillVars, extVars>>
    \/ setEncryption /\ UNCHANGED <<pipelineVars, storageVars, retryVars, fillVars, extVars>>
    \/ observeEvent /\ UNCHANGED <<pipelineVars, storageVars, retryVars, fillVars, extVars>>

SpecRun == Init /\ [][NextRun]_vars

\* the room as constructed over a storage that holds events of it already
InitRetry ==
    /\ RoomInit /\ PipelineInit /\ retry = IdleRetry /\ FillInit /\ ExtInit
    /\ \E S \in SUBSET Events : StorageInit(storedEntries(S), {})

\* SpecRetry: notifyRoomKey calls, one at a time, with the decryption request each
\* starts, while the timeline opens and closes
NextRetry ==
    \/ \E roomKey \in RoomKeys, eventIds \in EventIdLists : notifyRoomKey(roomKey, eventIds) /\ UNCHANGED extVars
    \/ notifyRoomKeyTxnOpened /\ UNCHANGED extVars
    \/ notifyRoomKeyEntriesRead /\ UNCHANGED extVars
    \/ notifyRoomKeyDecrypted /\ UNCHANGED extVars
    \/ notifyRoomKeySummaryWritten /\ UNCHANGED extVars
    \/ notifyRoomKeySettled /\ UNCHANGED extVars
    \/ prepareDecryptAllResolved("retry") /\ UNCHANGED <<roomVars, storageVars, retryVars, fillVars, extVars>>
    \/ prepareDecryptAllRejected("retry") /\ UNCHANGED <<roomVars, storageVars, retryVars, fillVars, extVars>>
    \/ decryptResolved("retry") /\ UNCHANGED <<roomVars, storageVars, retryVars, fillVars, extVars>>
    \/ decryptRejected("retry") /\ UNCHANGED <<roomVars, storageVars, retryVars, fillVars, extVars>>
    \/ readWriteTxnOpened("retry") /\ UNCHANGED <<roomVars, storageVars, retryVars, fillVars, extVars>>
    \/ writeResolved("retry") /\ UNCHANGED <<roomVars, storageVars, retryVars, fillVars, extVars>>
    \/ writeRejected("retry") /\ UNCHANGED <<roomVars, storageVars, retryVars, fillVars, extVars>>
    \/ verifySendersResolved("retry") /\ UNCHANGED <<roomVars, storageVars, retryVars, fillVars, extVars>>
    \/ verifySendersRejected("retry") /\ UNCHANGED <<roomVars, storageVars, retryVars, fillVars, extVars>>
    \/ completeResolved("retry") /\ UNCHANGED <<roomVars, storageVars, retryVars, fillVars, extVars>>
    \/ completeRejected("retry") /\ UNCHANGED <<roomVars, storageVars, retryVars, fillVars, extVars>>
    \/ openTimeline("a") /\ UNCHANGED <<pipelineVars, storageVars, retryVars, fillVars, extVars>>
    \/ openTimelineLoaded("a") /\ UNCHANGED <<pipelineVars, storageVars, retryVars, fillVars, extVars>>
    \/ dispose /\ UNCHANGED <<pipelineVars, storageVars, retryVars, fillVars, extVars>>
    \/ setEncryption /\ UNCHANGED <<pipelineVars, storageVars, retryVars, fillVars, extVars>>

SpecRetry == InitRetry /\ [][NextRetry]_vars

\* SpecTimeline: the timeline lifecycle under concurrent openTimeline calls
NextTimeline ==
    \/ \E c \in OpenCalls : openTimeline(c) /\ UNCHANGED <<pipelineVars, storageVars, retryVars, fillVars, extVars>>
    \/ \E c \in OpenCalls : openTimelineLoaded(c) /\ UNCHANGED <<pipelineVars, storageVars, retryVars, fillVars, extVars>>
    \/ \E c \in OpenCalls : openTimelineLoadFailed(c) /\ UNCHANGED <<pipelineVars, storageVars, retryVars, fillVars, extVars>>
    \/ \E c \in OpenCalls : openTimelineEnableFailed(c) /\ UNCHANGED <<pipelineVars, storageVars, retryVars, fillVars, extVars>>
    \/ \E c \in OpenCalls : openTimelineSettled(c) /\ UNCHANGED <<pipelineVars, storageVars, retryVars, fillVars, extVars>>
    \/ \E i \in TimelineIds : disposeTimeline(i) /\ UNCHANGED <<pipelineVars, storageVars, retryVars, fillVars, extVars>>
    \/ dispose /\ UNCHANGED <<pipelineVars, storageVars, retryVars, fillVars, extVars>>
    \/ setEncryption /\ UNCHANGED <<pipelineVars, storageVars, retryVars, fillVars, extVars>>

SpecTimeline == Init /\ [][NextTimeline]_vars

\* the room over a storage that holds the local entry of at most one pending event
InitFill ==
    /\ RoomInit /\ PipelineInit /\ retry = IdleRetry /\ FillInit /\ ExtInit
    /\ \E S \in {{}} \cup {{e} : e \in Events} : StorageInit(localEntries(S), S)

\* SpecFill: two fillGap calls on the same fragment entry of a room without
\* encryption, while the timeline opens and closes
NextFill ==
    \/ \E c \in FillCalls, amount \in Amounts : fillGap(c, amount) /\ UNCHANGED extVars
    \/ \E c \in FillCalls : messagesResolved(c) /\ UNCHANGED extVars
    \/ \E c \in FillCalls : messagesRejected(c) /\ UNCHANGED extVars
    \/ \E c \in FillCalls : fillTxnOpened(c) /\ UNCHANGED extVars
    \/ \E c \in FillCalls : writeGapFillResolved(c) /\ UNCHANGED extVars
    \/ \E c \in FillCalls : writeGapFillRejected(c) /\ UNCHANGED extVars
    \/ \E c \in FillCalls : writeFragmentFillResolved(c) /\ UNCHANGED extVars
    \/ \E c \in FillCalls : writeFragmentFillRejected(c) /\ UNCHANGED extVars
    \/ \E c \in FillCalls : fillTxnCompleted(c) /\ UNCHANGED extVars
    \/ \E c \in FillCalls : fillTxnCompleteRejected(c) /\ UNCHANGED extVars
    \/ openTimeline("a") /\ UNCHANGED <<pipelineVars, storageVars, retryVars, fillVars, extVars>>
    \/ openTimelineLoaded("a") /\ UNCHANGED <<pipelineVars, storageVars, retryVars, fillVars, extVars>>
    \/ dispose /\ UNCHANGED <<pipelineVars, storageVars, retryVars, fillVars, extVars>>

SpecFill == InitFill /\ [][NextFill]_vars

\* SpecFillEncrypted: one fillGap call with the decryption request it starts once the
\* room is encrypted, while the timeline opens and closes
NextFillEncrypted ==
    \/ \E amount \in Amounts : fillGap("f1", amount) /\ UNCHANGED extVars
    \/ messagesResolved("f1") /\ UNCHANGED extVars
    \/ messagesRejected("f1") /\ UNCHANGED extVars
    \/ fillTxnOpened("f1") /\ UNCHANGED extVars
    \/ writeGapFillResolved("f1") /\ UNCHANGED extVars
    \/ writeGapFillRejected("f1") /\ UNCHANGED extVars
    \/ writeFragmentFillResolved("f1") /\ UNCHANGED extVars
    \/ writeFragmentFillRejected("f1") /\ UNCHANGED extVars
    \/ fillTxnCompleted("f1") /\ UNCHANGED extVars
    \/ fillTxnCompleteRejected("f1") /\ UNCHANGED extVars
    \/ fillDecrypted("f1") /\ UNCHANGED extVars
    \/ readTxnOpened("f1") /\ UNCHANGED <<roomVars, storageVars, retryVars, fillVars, extVars>>
    \/ prepareDecryptAllResolved("f1") /\ UNCHANGED <<roomVars, storageVars, retryVars, fillVars, extVars>>
    \/ prepareDecryptAllRejected("f1") /\ UNCHANGED <<roomVars, storageVars, retryVars, fillVars, extVars>>
    \/ decryptResolved("f1") /\ UNCHANGED <<roomVars, storageVars, retryVars, fillVars, extVars>>
    \/ decryptRejected("f1") /\ UNCHANGED <<roomVars, storageVars, retryVars, fillVars, extVars>>
    \/ readWriteTxnOpened("f1") /\ UNCHANGED <<roomVars, storageVars, retryVars, fillVars, extVars>>
    \/ writeResolved("f1") /\ UNCHANGED <<roomVars, storageVars, retryVars, fillVars, extVars>>
    \/ writeRejected("f1") /\ UNCHANGED <<roomVars, storageVars, retryVars, fillVars, extVars>>
    \/ verifySendersResolved("f1") /\ UNCHANGED <<roomVars, storageVars, retryVars, fillVars, extVars>>
    \/ verifySendersRejected("f1") /\ UNCHANGED <<roomVars, storageVars, retryVars, fillVars, extVars>>
    \/ completeResolved("f1") /\ UNCHANGED <<roomVars, storageVars, retryVars, fillVars, extVars>>
    \/ completeRejected("f1") /\ UNCHANGED <<roomVars, storageVars, retryVars, fillVars, extVars>>
    \/ openTimeline("a") /\ UNCHANGED <<pipelineVars, storageVars, retryVars, fillVars, extVars>>
    \/ openTimelineLoaded("a") /\ UNCHANGED <<pipelineVars, storageVars, retryVars, fillVars, extVars>>
    \/ dispose /\ UNCHANGED <<pipelineVars, storageVars, retryVars, fillVars, extVars>>
    \/ setEncryption /\ UNCHANGED <<pipelineVars, storageVars, retryVars, fillVars, extVars>>

SpecFillEncrypted == InitFill /\ [][NextFillEncrypted]_vars

\* SpecFillSequence: fillGap calls on the fragment entry of a room without encryption,
\* each made when the one before it has settled, while the timeline opens and closes
NextFillSequence ==
    \/ \E amount \in Amounts : fillGap("f1", amount) /\ UNCHANGED extVars
    \/ messagesResolved("f1") /\ UNCHANGED extVars
    \/ messagesRejected("f1") /\ UNCHANGED extVars
    \/ fillTxnOpened("f1") /\ UNCHANGED extVars
    \/ writeGapFillResolved("f1") /\ UNCHANGED extVars
    \/ writeGapFillRejected("f1") /\ UNCHANGED extVars
    \/ writeFragmentFillResolved("f1") /\ UNCHANGED extVars
    \/ writeFragmentFillRejected("f1") /\ UNCHANGED extVars
    \/ fillTxnCompleted("f1") /\ UNCHANGED extVars
    \/ fillTxnCompleteRejected("f1") /\ UNCHANGED extVars
    \/ fillGapSettled("f1") /\ UNCHANGED extVars
    \/ openTimeline("a") /\ UNCHANGED <<pipelineVars, storageVars, retryVars, fillVars, extVars>>
    \/ openTimelineLoaded("a") /\ UNCHANGED <<pipelineVars, storageVars, retryVars, fillVars, extVars>>
    \/ dispose /\ UNCHANGED <<pipelineVars, storageVars, retryVars, fillVars, extVars>>

SpecFillSequence == InitFill /\ [][NextFillSequence]_vars

\* the eventIds arrays of the calls of SpecOverlap: no id, or one
ShortEventIdLists == {<< >>} \cup {<<e>> : e \in Events}

\* SpecOverlap: two notifyRoomKey calls, one made while the other may be running, with
\* the decryption request each starts, in a room whose timeline opens
NextOverlap ==
    \/ \E roomKey \in RoomKeys, eventIds \in ShortEventIdLists : notifyRoomKey(roomKey, eventIds) /\ UNCHANGED extVars
    \/ notifyRoomKeyTxnOpened /\ UNCHANGED extVars
    \/ notifyRoomKeyEntriesRead /\ UNCHANGED extVars
    \/ notifyRoomKeyDecrypted /\ UNCHANGED extVars
    \/ notifyRoomKeySummaryWritten /\ UNCHANGED extVars
    \/ \E roomKey \in RoomKeys, eventIds \in ShortEventIdLists : notifyRoomKey2(roomKey, eventIds)
    \/ notifyRoomKey2TxnOpened
    \/ notifyRoomKey2EntriesRead
    \/ notifyRoomKey2Decrypted
    \/ notifyRoomKey2SummaryWritten
    \/ \E r \in {"retry", "retry2"} : prepareDecryptAllResolved(r) /\ UNCHANGED <<roomVars, storageVars, retryVars, fillVars, extVars>>
    \/ \E r \in {"retry", "retry2"} : prepareDecryptAllRejected(r) /\ UNCHANGED <<roomVars, storageVars, retryVars, fillVars, extVars>>
    \/ \E r \in {"retry", "retry2"} : decryptResolved(r) /\ UNCHANGED <<roomVars, storageVars, retryVars, fillVars, extVars>>
    \/ \E r \in {"retry", "retry2"} : decryptRejected(r) /\ UNCHANGED <<roomVars, storageVars, retryVars, fillVars, extVars>>
    \/ \E r \in {"retry", "retry2"} : readWriteTxnOpened(r) /\ UNCHANGED <<roomVars, storageVars, retryVars, fillVars, extVars>>
    \/ \E r \in {"retry", "retry2"} : writeResolved(r) /\ UNCHANGED <<roomVars, storageVars, retryVars, fillVars, extVars>>
    \/ \E r \in {"retry", "retry2"} : writeRejected(r) /\ UNCHANGED <<roomVars, storageVars, retryVars, fillVars, extVars>>
    \/ \E r \in {"retry", "retry2"} : verifySendersResolved(r) /\ UNCHANGED <<roomVars, storageVars, retryVars, fillVars, extVars>>
    \/ \E r \in {"retry", "retry2"} : verifySendersRejected(r) /\ UNCHANGED <<roomVars, storageVars, retryVars, fillVars, extVars>>
    \/ \E r \in {"retry", "retry2"} : completeResolved(r) /\ UNCHANGED <<roomVars, storageVars, retryVars, fillVars, extVars>>
    \/ \E r \in {"retry", "retry2"} : completeRejected(r) /\ UNCHANGED <<roomVars, storageVars, retryVars, fillVars, extVars>>
    \/ openTimeline("a") /\ UNCHANGED <<pipelineVars, storageVars, retryVars, fillVars, extVars>>
    \/ openTimelineLoaded("a") /\ UNCHANGED <<pipelineVars, storageVars, retryVars, fillVars, extVars>>
    \/ setEncryption /\ UNCHANGED <<pipelineVars, storageVars, retryVars, fillVars, extVars>>

SpecOverlap == InitRetry /\ [][NextOverlap]_vars

\* SpecObserve: observeEvent calls, one at a time, with the background load each may
\* start and its decryption request, while the timeline opens and closes
NextObserve ==
    \/ \E eventId \in Events : observeEventCall(eventId)
    \/ readEventByIdTxnOpened
    \/ readEventByIdTxnRejected
    \/ readEventByIdRead
    \/ readEventByIdReadRejected
    \/ readEventByIdDecrypted
    \/ observeEventReleased
    \/ prepareDecryptAllResolved("read") /\ UNCHANGED <<roomVars, storageVars, retryVars, fillVars, extVars>>
    \/ prepareDecryptAllRejected("read") /\ UNCHANGED <<roomVars, storageVars, retryVars, fillVars, extVars>>
    \/ decryptResolved("read") /\ UNCHANGED <<roomVars, storageVars, retryVars, fillVars, extVars>>
    \/ decryptRejected("read") /\ UNCHANGED <<roomVars, storageVars, retryVars, fillVars, extVars>>
    \/ readWriteTxnOpened("read") /\ UNCHANGED <<roomVars, storageVars, retryVars, fillVars, extVars>>
    \/ writeResolved("read") /\ UNCHANGED <<roomVars, storageVars, retryVars, fillVars, extVars>>
    \/ writeRejected("read") /\ UNCHANGED <<roomVars, storageVars, retryVars, fillVars, extVars>>
    \/ verifySendersResolved("read") /\ UNCHANGED <<roomVars, storageVars, retryVars, fillVars, extVars>>
    \/ verifySendersRejected("read") /\ UNCHANGED <<roomVars, storageVars, retryVars, fillVars, extVars>>
    \/ completeResolved("read") /\ UNCHANGED <<roomVars, storageVars, retryVars, fillVars, extVars>>
    \/ completeRejected("read") /\ UNCHANGED <<roomVars, storageVars, retryVars, fillVars, extVars>>
    \/ openTimeline("a") /\ UNCHANGED <<pipelineVars, storageVars, retryVars, fillVars, extVars>>
    \/ openTimelineLoaded("a") /\ UNCHANGED <<pipelineVars, storageVars, retryVars, fillVars, extVars>>
    \/ dispose /\ UNCHANGED <<pipelineVars, storageVars, retryVars, fillVars, extVars>>
    \/ setEncryption /\ UNCHANGED <<pipelineVars, storageVars, retryVars, fillVars, extVars>>

SpecObserve == InitRetry /\ [][NextObserve]_vars

\* SpecSync: syncs that retry decryption for new keys, one at a time, and a
\* notifyRoomKey call for the entries of the timeline, up to the decryption request it
\* starts, while the timeline opens and closes
NextSync ==
    \/ \E newKeys \in KeyLists, retryEventIds \in UNION {[1..n -> MissingKeyEventIds] : n \in 1..2} :
           getSyncRetryDecryptEntries(newKeys, retryEventIds)
    \/ getSyncRetryEntriesRead
    \/ syncWrite
    \/ afterSync
    \/ syncSettled
    \/ \E roomKey \in RoomKeys : notifyRoomKey(roomKey, << >>) /\ UNCHANGED extVars
    \/ notifyRoomKeyTxnOpened /\ UNCHANGED extVars
    \/ notifyRoomKeyEntriesRead /\ UNCHANGED extVars
    \/ openTimeline("a") /\ UNCHANGED <<pipelineVars, storageVars, retryVars, fillVars, extVars>>
    \/ openTimelineLoaded("a") /\ UNCHANGED <<pipelineVars, storageVars, retryVars, fillVars, extVars>>
    \/ dispose /\ UNCHANGED <<pipelineVars, storageVars, retryVars, fillVars, extVars>>
    \/ setEncryption /\ UNCHANGED <<pipelineVars, storageVars, retryVars, fillVars, extVars>>

SpecSync == InitRetry /\ [][NextSync]_vars

\* SpecComparer: fragments with any ids are linked in at either end of the chain
NextComparer ==
    \E id \in FragmentIds, atStart \in BOOLEAN : linkFragment(id, atStart) /\ UNCHANGED extVars

SpecComparer == Init /\ [][NextComparer]_vars

\* SpecIterate: iterateResponseStateEvents is called on any room response
InitIterate ==
    /\ RoomInit /\ PipelineInit /\ retry = IdleRetry /\ FillInit
    /\ StorageInit({}, {})
    /\ retry2 = IdleRetry
    /\ observe = IdleObserve
    /\ syncRetry = IdleSync
    /\ callHandler = CallHandlerInit
    /\ \E roomResponse \in RoomResponses : iterate = IdleIterate(roomResponse)

NextIterate ==
    iterateCall

SpecIterate == InitIterate /\ [][NextIterate]_vars

\* SpecMessages: to-device messages of any member key arrive while call events make the
\* first call known and unknown and member events change the devices of one user in it
NextMessages ==
    \/ \E terminated \in BOOLEAN : handleCallEvent("c1", terminated)
    \/ \E message \in Messages(callHandler.arrived + 1) : handleDeviceMessage(message)
    \/ \E listed \in ShortCallLists({"c1"}) : handleCallMemberEvent("@u1", listed)

SpecMessages == Init /\ [][NextMessages]_vars

\* SpecMembership: call events of two calls arrive, with member events of the own user
\* that list the first call and member events of the other user that list any of them
NextMembership ==
    \/ \E callId \in CallIds, terminated \in BOOLEAN : handleCallEvent(callId, terminated)
    \/ \E listed \in ShortCallLists({"c1"}) : handleCallMemberEvent(ownUserId, listed)
    \/ \E listed \in OneCallLists({"c1"}) \cup ShortCallLists({"c2"}) \cup TwoCallLists :
           handleCallMemberEvent("@u1", listed)

SpecMembership == Init /\ [][NextMembership]_vars

\* SpecJoin: the events of one call arrive while the application joins it, with
\* overlapping invocations, and leaves it
NextJoin ==
    \/ \E terminated \in BOOLEAN : handleCallEvent("c1", terminated)
    \/ \E listed \in ShortCallLists({"c1"}) : handleCallMemberEvent(ownUserId, listed)
    \/ \E j \in JoinCalls : join("c1", j)
    \/ \E j \in JoinCalls : joinTxnOpened("c1", j)
    \/ \E j \in JoinCalls : joinPayloadCreated("c1", j)
    \/ \E j \in JoinCalls : joinSent("c1", j)
    \/ \E j \in JoinCalls : joinRejected("c1", j)
    \/ \E j \in JoinCalls : joinSettled("c1", j)
    \/ leave("c1")
    \/ leaveTxnOpened("c1")
    \/ leaveContentRead("c1")
    \/ leaveSent("c1")
    \/ leaveTerminated("c1")
    \/ leaveRejected("c1")

SpecJoin == Init /\ [][NextJoin]_vars

\* SpecMembers: the member events of the own user and of another user arrive for one
\* call while the application joins it
NextMembers ==
    \/ \E terminated \in BOOLEAN : handleCallEvent("c1", terminated)
    \/ \E listed \in ShortCallLists({"c1"}) : handleCallMemberEvent(ownUserId, listed)
    \/ \E listed \in ShortCallLists({"c1"}) : handleCallMemberEvent("@u1", listed)
    \/ join("c1", "j1")
    \/ joinTxnOpened("c1", "j1")
    \/ joinPayloadCreated("c1", "j1")
    \/ joinSent("c1", "j1")
    \/ joinRejected("c1", "j1")
    \/ joinSettled("c1", "j1")

SpecMembers == Init /\ [][NextMembers]_vars

\* SpecCreate: the application creates a call, joins it and terminates it, while the
\* events of the call, which the server has once the request of create is sent, arrive
NextCreate ==
    \/ createCall("c1")
    \/ createSent("c1")
    \/ createTxnOpened("c1")
    \/ createCompleted("c1")
    \/ createRejected("c1")
    \/ \E terminated \in BOOLEAN :
           /\ callHandler.calls["c1"] # NoCall
           /\ handleCallEvent("c1", terminated)
    \/ \E listed \in ShortCallLists({"c1"}) : handleCallMemberEvent(ownUserId, listed)
    \/ join("c1", "j1")
    \/ joinTxnOpened("c1", "j1")
    \/ joinPayloadCreated("c1", "j1")
    \/ joinSent("c1", "j1")
    \/ joinRejected("c1", "j1")
    \/ joinSettled("c1", "j1")
    \/ terminate("c1")

SpecCreate == Init /\ [][NextCreate]_vars

\* ------------------------------------------------------------------ claims

\* the awaits of the run that lie before the read-write transaction is asked for
EarlyAwaits == {"readTxn", "prepareDecryptAll", "decrypt"}
\* the awaits from the read-write transaction on
LateAwaits == {"readWriteTxn", "write", "verifySenders", "complete"}

\* C1: a request disposed before the read-write transaction step is reached opens no
\* read-write transaction, never calls changes.write or applyToEntries, leaves the
\* store as it was and every entry of the batch in the decryption state it had
C1_CancelBeforeWriteStep ==
    \A r \in Owners :
        (req[r].cancelled /\ req[r].cancelPc \in EarlyAwaits) =>
            /\ req[r].rwTxns = 0
            /\ req[r].writeTxn = "none"
            /\ req[r].writeCalls = 0
            /\ req[r].applyCalls = 0
            /\ groupSessionDecryptions = req[r].storeBefore
            /\ \A e \in batchIds(req[r]) : entryDec[e] = req[r].decBefore[e]

\* a run cancelled while preparation.decrypt() was pending has ended, with decrypted
\* events it never wrote
C1_Witness ==
    \E r \in Owners :
        /\ req[r].pc = "done"
        /\ req[r].cancelPc = "decrypt"
        /\ req[r].results # {}
        /\ req[r].outcome = "resolved"

\* C2 as stated: whatever await the run is suspended at when dispose() is called, the
\* cancelled request afterwards neither writes nor commits nor applies nor notifies
C2_Original ==
    \A r \in Owners :
        req[r].afterCancel \cap {"write", "commit", "applyToEntries", "updateEvents"} = {}

\* C2 amended: the cancellation is checked after the first three awaits only.  A
\* request disposed at one of them has no effect afterwards; a request disposed at a
\* later await runs on as if it were not cancelled, and when it resolves it has
\* committed and applied its results
C2_CancelCheckedAtEarlyAwaits ==
    \A r \in Owners :
        /\ req[r].cancelPc \in EarlyAwaits => req[r].afterCancel = {}
        /\ (req[r].cancelPc \in LateAwaits /\ req[r].outcome = "resolved") =>
               /\ {"commit", "applyToEntries"} \subseteq req[r].afterCancel
               /\ req[r].writeTxn = "committed"
               /\ \A e \in req[r].results : entryDec[e] = "decrypted"

\* a request disposed while changes.write was pending has committed and applied
C2_Witness ==
    \E r \in Owners :
        /\ req[r].cancelPc = "write"
        /\ req[r].outcome = "resolved"
        /\ req[r].results # {}
        /\ "applyToEntries" \in req[r].afterCancel

\* C3: when changes.write or verifySenders throws, the write transaction is aborted
\* and not completed, nothing is applied or notified, the store is unchanged and the
\* request rejects with the error thrown; a committed transaction holds every
\* decryption of the run
C3_WriteErrorAborts ==
    \A r \in Owners :
        /\ req[r].thrown # "none" =>
              /\ req[r].writeTxn = "aborted"
              /\ req[r].written = {}
              /\ req[r].applyCalls = 0
              /\ req[r].notifyCalls = 0
              /\ req[r].outcome = "rejected"
              /\ req[r].error = req[r].thrown
              /\ groupSessionDecryptions = req[r].storeBefore
              /\ \A e \in batchIds(req[r]) : entryDec[e] = req[r].decBefore[e]
        /\ req[r].writeTxn = "committed" =>
              /\ req[r].written = req[r].results
              /\ req[r].thrown = "none"

\* verifySenders threw after changes.write had written decryptions
C3_Witness ==
    \E r \in Owners :
        /\ req[r].thrown = "verifyError"
        /\ req[r].results # {}
        /\ req[r].results \ req[r].storeBefore # {}
        /\ req[r].outcome = "rejected"

\* C4 as stated: the call's batch never holds an event id twice and the call starts
\* exactly one decryption request
C4_Original ==
    [][(retry.pc = "eventIdsToEntries" /\ retry'.pc # "eventIdsToEntries") =>
          LET batch == retry'.retryEntries
          IN  /\ \A i, j \in DOMAIN batch : batch[i].id = batch[j].id => i = j
              /\ retry'.requests = 1]_vars

\* C4 amended: when notifyRoomKey(K, eventIds) of an encrypted room has read its
\* entries, the batch holds every stored event listed in eventIds and every remote
\* entry of the room's timeline that filterUndecryptedEventEntriesForKeys reports for
\* K, and nothing else; if eventIds lists no id twice, no event id occurs twice in the
\* batch; a non-empty batch is handed to exactly one decryption request, an empty
\* batch starts none
C4_RetryBatch ==
    [][(retry.pc = "eventIdsToEntries" /\ retry'.pc # "eventIdsToEntries") =>
          LET eventIds == retry.eventIds
              batch == retry'.retryEntries
              listed == {eventIds[i] : i \in DOMAIN eventIds} \cap storedIds
              blocked == IF timeline # 0
                            THEN filterUndecryptedEventEntriesForKeys(
                                     remoteIds, {retry.roomKey})
                            ELSE {}
          IN  /\ listed \subseteq entryIds(batch)
              /\ blocked \subseteq entryIds(batch)
              /\ entryIds(batch) \subseteq listed \cup blocked
              /\ (\A i, j \in DOMAIN eventIds : eventIds[i] = eventIds[j] => i = j) =>
                     (\A i, j \in DOMAIN batch : batch[i].id = batch[j].id => i = j)
              /\ retry'.requests = (IF batch = << >> THEN 0 ELSE 1)
              /\ batch # << >> =>
                     /\ req["retry"].pc = "idle"
                     /\ req'["retry"].pc # "idle"
                     /\ req'["retry"].entries = batch]_vars

\* the request of a call runs on a batch that holds the storage entry of a listed event
\* the timeline shows too, once, and a timeline entry that was not listed
C4_Witness ==
    /\ retry.pc = "decrypt"
    /\ retry.requests = 1
    /\ req["retry"].pc = "decrypt"
    /\ req["retry"].entries = retry.retryEntries
    /\ \E i, j \in DOMAIN retry.retryEntries :
           /\ retry.retryEntries[i].origin = "storage"
           /\ retry.retryEntries[i].id \in remoteIds
           /\ eventType(retry.retryEntries[i].id) = EVENT_ENCRYPTED_TYPE
           /\ retry.retryEntries[j].origin = "timeline"
    /\ \A i, j \in DOMAIN retry.retryEntries :
           retry.retryEntries[i].id = retry.retryEntries[j].id => i = j

\* C5: when _writeGapFill or GapWriter.writeFragmentFill throws, fillGap aborts its one
\* read-write transaction, which is never completed afterwards, and rejects with the
\* error thrown; no step of the call up to and including the failure changes the
\* committed content of the three stores, the comparer, the timeline's entries or the
\* fragment entry
C5_WriteErrorAbortsFill ==
    [][\A c \in FillCalls :
          /\ (fill[c].pc \in {"writeGapFill", "writeFragmentFill"}
                  /\ fill'[c].thrown # "none") =>
                /\ fill'[c].thrown \in {"writeGapFillError", "writeFragmentFillError"}
                /\ fill'[c].pc = "done"
                /\ fill'[c].outcome = "rejected"
                /\ fill'[c].error = fill'[c].thrown
                /\ fill'[c].txn = "aborted"
                /\ fill'[c].txns = 1
                /\ fill'[c].effects = {}
                /\ storageTxn' = NoTxn
          /\ fill[c].txn = "aborted" => fill'[c] = fill[c]
          /\ (fill[c].pc \in {"idle", "messages", "readWriteTxn", "writeGapFill",
                              "writeFragmentFill"} /\ fill'[c] # fill[c]) =>
                /\ timelineEvents' = timelineEvents
                /\ timelineFragments' = timelineFragments
                /\ pendingEvents' = pendingEvents
                /\ comparer' = comparer
                /\ remoteEntries' = remoteEntries
                /\ fragmentEntry' = fragmentEntry]_vars

\* writeFragmentFill threw on a page of two events or more while a timeline was open
\* over stored events
C5_Witness ==
    \E c \in FillCalls :
        /\ fill[c].thrown = "writeFragmentFillError"
        /\ fill[c].pc = "done"
        /\ fill[c].txn = "aborted"
        /\ Len(fill[c].response.chunk) >= 2
        /\ timeline # 0
        /\ remoteEntries # {}

\* C6: when the request of the page fails, fillGap rejects with that failure, having
\* opened no transaction and changed neither the stores nor the comparer, the timeline
\* or the fragment entry; every fillGap asks for the page at the entry's token, so a
\* later call on the entry starts from the same token
C6_NetworkErrorNoTxn ==
    [][\A c \in FillCalls :
          /\ fill'[c].thrown = "networkError" =>
                /\ fill'[c].pc = "done"
                /\ fill'[c].outcome = "rejected"
                /\ fill'[c].error = "networkError"
                /\ fill'[c].txn = "none"
                /\ fill'[c].txns = 0
                /\ fill'[c].effects = {}
          /\ (fill[c].pc = "messages" /\ fill'[c].thrown = "networkError") =>
                /\ storageTxn' = storageTxn
                /\ timelineEvents' = timelineEvents
                /\ timelineFragments' = timelineFragments
                /\ pendingEvents' = pendingEvents
                /\ comparer' = comparer
                /\ remoteEntries' = remoteEntries
                /\ fragmentEntry' = fragmentEntry
          /\ (fill[c].pc = "idle" /\ fill'[c].pc = "messages") =>
                fill'[c].from = fragmentEntry.token]_vars

\* the request of one call failed, and the other call has filled the gap from the
\* token the failed call asked for
C6_Witness ==
    \E c, d \in FillCalls :
        /\ fill[c].thrown = "networkError"
        /\ fill[c].pc = "done"
        /\ fill[d].outcome = "resolved"
        /\ fill[d].from = fill[c].from
        /\ fill[d].txn = "committed"
        /\ fill[d].response.chunk # << >>

C8_RemoteEchoUpdatesInPlace ==
    [][\A c \in FillCalls, e \in pendingEvents :
          /\ (/\ fill[c].pc = "writeFragmentFill"
              /\ fill'[c].pc = "complete"
              /\ e \in elements(fill[c].response.chunk)) =>
                /\ e \in elements(fill'[c].gapResult.updatedEntries)
                /\ e \notin elements(fill'[c].gapResult.entries)
                /\ Cardinality({x \in storageTxn'.timelineEvents : x.id = e}) = 1
                /\ \A x \in storageTxn'.timelineEvents : x.id = e => ~x.local
          /\ (/\ fill[c].pc \in {"complete", "decrypt"}
              /\ fill'[c].outcome = "resolved"
              /\ e \in elements(fill[c].gapResult.updatedEntries)) =>
                /\ Cardinality({x \in timelineEvents' : x.id = e}) = 1
                /\ (timeline # 0 /\ e \in remoteIds) =>
                       {x \in remoteEntries' : x.id = e} =
                           {[id |-> e, by |-> c, local |-> FALSE]}
                /\ e \notin remoteIds => e \notin remoteIds']_vars

\* a fill has replaced the local entry of a pending event in the open timeline
C8_Witness ==
    \E c \in FillCalls, e \in pendingEvents :
        /\ fill[c].outcome = "resolved"
        /\ e \in elements(fill[c].gapResult.updatedEntries)
        /\ Len(fill[c].gapResult.entries) >= 1
        /\ timeline # 0
        /\ [id |-> e, by |-> c, local |-> FALSE] \in remoteEntries
        /\ \A x \in timelineEvents : x.id = e => ~x.local

\* C9: compare(a, b) tells the position of a and b in the chain, whatever their ids,
\* and is antisymmetric and transitive on the fragments of the chain
C9_CompareFollowsChain ==
    /\ \A i, j \in DOMAIN chain :
          compare(comparer, chain[i], chain[j]) =
              IF i < j THEN "before" ELSE IF i > j THEN "after" ELSE "equal"
    /\ \A a, b \in elements(chain) :
          compare(comparer, a, b) = "before" <=> compare(comparer, b, a) = "after"
    /\ \A a, b, d \in elements(chain) :
          (compare(comparer, a, b) = "before" /\ compare(comparer, b, d) = "before") =>
              compare(comparer, a, d) = "before"

\* a chain of four fragments whose ids neither rise nor fall along it
C9_Witness ==
    /\ Len(chain) >= 4
    /\ \E i \in 1..(Len(chain) - 1) : chain[i] > chain[i + 1]
    /\ \E i \in 1..(Len(chain) - 1) : chain[i] < chain[i + 1]
    /\ compare(comparer, chain[1], chain[Len(chain)]) = "before"
    /\ chain[1] > chain[Len(chain)]

\* C10: an openTimeline call made while the room has a timeline (loaded, or still
\* loading) fails with the error of line 391, constructs no Timeline and leaves the
\* room's timeline, every Timeline instance and the close notifications as they were
C10_OpenWhileOpenFails ==
    [][\A c \in OpenCalls :
          (open[c].pc = "idle" /\ open'[c].pc # "idle" /\ timeline # 0) =>
              /\ open'[c].pc = "failed"
              /\ open'[c].error = "not dealing with load race here for now"
              /\ open'[c].created = 0
              /\ nCreated' = nCreated
              /\ timeline' = timeline
              /\ tl' = tl
              /\ notifyTimelineClosed' = notifyTimelineClosed]_vars

\* a second call has failed while the first call still awaits its timeline's load
C10_Witness ==
    /\ open["a"].pc = "load"
    /\ timeline = open["a"].created
    /\ tl[timeline].state = "loading"
    /\ open["b"].pc = "failed"
    /\ open["b"].error = "not dealing with load race here for now"
    /\ nCreated = 1

\* the Timeline instances that have been constructed and not disposed
liveTimelines == {i \in TimelineIds : tl[i].state \in {"loading", "loaded"}}

\* C11: at most one Timeline of the room is constructed and not yet disposed, and it is
\* the one the room refers to; when the room refers to none, none is live
C11_AtMostOneLiveTimeline ==
    /\ Cardinality(liveTimelines) <= 1
    /\ liveTimelines = IF timeline = 0 THEN {} ELSE {timeline}

\* a second Timeline is loading after the first one was disposed, while the call that
\* made the first one has failed on its load
C11_Witness ==
    /\ nCreated = 2
    /\ tl[1].state = "disposed"
    /\ tl[2].state = "loading"
    /\ timeline = 2
    /\ \E c \in OpenCalls : open[c].created = 1 /\ open[c].pc = "failed"

\* C12: enableEncryption is called at most once on each Timeline instance, and it has
\* been called on the room's timeline exactly when the room has a room encryption
C12_EnableEncryptionOnce ==
    /\ \A i \in TimelineIds : tl[i].enableEncryption <= 1
    /\ timeline # 0 => (tl[timeline].enableEncryption = 1 <=> roomEncryption)

\* _setEncryption arrived while openTimeline awaited timeline.load(), and the load has
\* resolved since
C12_Witness ==
    \E c \in OpenCalls :
        /\ open[c].pc = "returned"
        /\ open[c].result = timeline
        /\ timeline # 0
        /\ tl[timeline].state = "loaded"
        /\ tl[timeline].enableEncryption = 1
        /\ \E i \in TimelineIds : tl[i].state = "disposed" /\ tl[i].enableEncryption = 0

\* C13: disposing the room's timeline while the request of a notifyRoomKey call is in
\* flight leaves the request and the call as they are, and the request is never
\* cancelled; when it has resolved it has committed its write transaction and applied
\* its results, and the call then goes on to the summary without replacing anything
\* in a timeline and without failing
C13_DisposeDoesNotCancelRetry ==
    [][/\ ~req'["retry"].cancelled
       /\ (retry.pc = "decrypt" /\ timeline # 0 /\ timeline' = 0) =>
              /\ req' = req
              /\ retry' = retry
       /\ (/\ retry.pc = "decrypt"
           /\ retry'.pc # "decrypt"
           /\ timeline = 0
           /\ req["retry"].outcome = "resolved") =>
              /\ req["retry"].writeTxn = "committed"
              /\ req["retry"].written = req["retry"].results
              /\ req["retry"].applyCalls = 1
              /\ req["retry"].results \subseteq groupSessionDecryptions
              /\ retry'.pc = "writeSummary"
              /\ retry'.outcome = "pending"
              /\ retry'.replaced = {}
              /\ remoteEntries' = remoteEntries
              /\ entryDec' = entryDec]_vars

\* the batch of the call held entries of the timeline, the timeline was disposed
\* before the request resolved, and the call has gone on to the summary
C13_Witness ==
    /\ retry.pc = "writeSummary"
    /\ timeline = 0
    /\ timelineObjects(req["retry"]) # {}
    /\ req["retry"].outcome = "resolved"
    /\ req["retry"].results # {}
    /\ req["retry"].isTimelineOpen
    /\ retry.replaced = {}

C15_OneUpdatePerRoomKey ==
    /\ retry.emits <= 1
    /\ retry.emits = 1 <=>
           /\ retry.pc = "done"
           /\ retry.outcome = "resolved"
           /\ retry.retryEntries # << >>
           /\ req["retry"].outcome = "resolved"
           /\ retry.summaryWrites = 1
           /\ retry.changed
    /\ (retry.pc = "done" /\ retry.retryEntries = << >>) =>
           /\ retry.outcome = "resolved"
           /\ retry.emits = 0
           /\ retry.requests = 0
           /\ retry.summaryWrites = 0
           /\ req["retry"] = IdleRequest
    /\ retry.summaryWrites <= 1
    /\ retry.requests <= 1

\* a call whose request decrypted an event has replaced entries of the open timeline,
\* written a summary that changed and emitted its one update
C15_Witness ==
    /\ retry.pc = "done"
    /\ retry.outcome = "resolved"
    /\ retry.summaryWrites = 1
    /\ retry.changed
    /\ retry.emits = 1
    /\ retry.replaced # {}
    /\ req["retry"].results # {}

\* the events of a section, none for a section that is absent
sectionEvents(section) == IF section.present THEN section.events ELSE << >>

\* an event whose state_key is a string
hasStringStateKey(event) == event.state_key.type = "string"

\* C16: the callback is called with every event of state.events in order, then with
\* the events of timeline.events whose state_key is a string, in order; no timeline
\* event without a string state_key is passed, and a response without either section
\* gives no call
C16_IterateStateThenTimeline ==
    iterate.pc = "done" =>
        LET stateEvents == sectionEvents(iterate.roomResponse.state)
            timelineEvts == sectionEvents(iterate.roomResponse.timeline)
            called == iterate.called
        IN  /\ called = stateEvents \o SelectSeq(timelineEvts, hasStringStateKey)
            /\ SubSeq(called, 1, Len(stateEvents)) = stateEvents
            /\ \A i \in DOMAIN called :
                   i > Len(stateEvents) => called[i].state_key.type = "string"
            /\ Len(called) - Len(stateEvents) =
                   Cardinality({i \in DOMAIN timelineEvts :
                                    timelineEvts[i].state_key.type = "string"})
            /\ (~iterate.roomResponse.state.present
                    /\ ~iterate.roomResponse.timeline.present) => called = << >>

\* a response with both sections: a state section with an event that has no state_key,
\* and a timeline section with an event of empty state_key and one without state_key
C16_Witness ==
    /\ iterate.pc = "done"
    /\ iterate.roomResponse.state.present
    /\ iterate.roomResponse.timeline.present
    /\ \E i \in DOMAIN iterate.roomResponse.state.events :
           iterate.roomResponse.state.events[i].state_key.type = "undefined"
    /\ \E i, j \in DOMAIN iterate.roomResponse.timeline.events :
           /\ iterate.roomResponse.timeline.events[i].state_key.type = "undefined"
           /\ iterate.roomResponse.timeline.events[j].state_key =
                  [type |-> "string", value |-> ""]
    /\ Len(iterate.called) = Len(iterate.roomResponse.state.events) + 1

\* the stored entries that have a server-assigned position
remoteStored == {x \in timelineEvents : ~x.local}

\* entry x comes before entry y in the order of the room's fragments and event indices
entryBefore(x, y) ==
    IF x.fragmentId = y.fragmentId
        THEN x.eventIndex < y.eventIndex
        ELSE compare(comparer, x.fragmentId, y.fragmentId) = "before"

committedStores ==
    [timelineEvents |-> timelineEvents, timelineFragments |-> timelineFragments]

inFlight == {r \in Owners : req[r].pc \notin {"idle", "done"}}

\* C19: no entry object of the live timeline is in the batch of two decryption requests
\* that are in flight at the same time
C19_NoEntryInTwoRuns ==
    \A r, q \in inFlight :
        r # q => timelineObjects(req[r]) \cap timelineObjects(req[q]) = {}

\* C20: observeEvent hands the observable to its caller in the step of the call.  When
\* the open timeline holds the event the observable starts with the timeline's entry
\* and nothing is read from storage; otherwise it starts empty and one background read
\* is started.  The observable is updated by the background load only, at most once, and
\* for a stored ciphertext event only when the decryption request of its entry has
\* resolved.  A failure of the load is taken by the catch handler: it is never thrown,
\* and it leaves the observable as it was
C20_ObserveEvent ==
    [][/\ (observe.pc = "idle" /\ observe'.pc # "idle") =>
              /\ observe'.returned
              /\ observedEvents'
              /\ IF timeline # 0 /\ observe'.eventId \in remoteIds
                    THEN /\ observe'.value = "timeline"
                         /\ observe'.reads = 0
                         /\ observe'.pc = "done"
                         /\ req' = req
                    ELSE /\ observe'.value = "none"
                         /\ observe'.reads = 1
                         /\ observe'.pc = "readTxn"
       /\ observe'.updates > observe.updates =>
              /\ observe.returned
              /\ observe.pc \in {"getByEventId", "decrypt"}
              /\ observe'.updates = 1
              /\ (observe.eventId \in storedIds
                      /\ eventType(observe.eventId) = EVENT_ENCRYPTED_TYPE) =>
                     /\ req["read"].pc = "done"
                     /\ req["read"].outcome = "resolved"
                     /\ req["read"].applyCalls = 1
                     /\ batchIds(req["read"]) = {observe.eventId}
       /\ ~observe'.thrown
       /\ observe'.reads <= 1
       /\ observe'.warned =>
              /\ observe'.pc = "done"
              /\ observe'.updates = 0
              /\ observe'.value = "none"
       /\ (observe.pc = "decrypt" /\ req["read"].outcome = "rejected"
               /\ observe'.pc # "decrypt") => observe'.warned]_vars

\* the observable of a stored ciphertext event that the open timeline does not hold was
\* returned empty and updated after the event's decryption request had decrypted it
C20_Witness ==
    /\ observe.pc = "done"
    /\ observe.returned
    /\ observe.reads = 1
    /\ observe.updates = 1
    /\ observe.value = "storage"
    /\ eventType(observe.eventId) = EVENT_ENCRYPTED_TYPE
    /\ req["read"].outcome = "resolved"
    /\ observe.eventId \in req["read"].results
    /\ timeline # 0
    /\ tl[timeline].state = "loading"

\* the run of q has made the call
called(q, what) == \E i \in DOMAIN q.calls : q.calls[i] = what

\* C21: a request disposed while its run awaits its own read transaction ends without
\* side effects: prepareDecryptAll is not called, no read-write transaction is opened,
\* nothing is written, applied or notified, and the store and the entries of the batch
\* are as they were.  A run opens its own read transaction exactly when its caller
\* supplied none, and as its first call
C21_CancelBeforePrepare ==
    \A r \in Owners :
        /\ req[r].cancelPc = "readTxn" =>
              /\ req[r].calls = <<"readTxn">>
              /\ req[r].pc \in {"readTxn", "done"}
              /\ req[r].preparation = "null"
              /\ req[r].rwTxns = 0
              /\ req[r].writeTxn = "none"
              /\ req[r].writeCalls = 0
              /\ req[r].applyCalls = 0
              /\ req[r].notifyCalls = 0
              /\ req[r].outcome \in {"pending", "resolved"}
              /\ groupSessionDecryptions = req[r].storeBefore
              /\ \A e \in batchIds(req[r]) : entryDec[e] = req[r].decBefore[e]
        /\ req[r].pc # "idle" =>
              /\ called(req[r], "readTxn") <=> req[r].inboundSessionTxn \in {"none", "own"}
              /\ ~called(req[r], "readTxn") <=> req[r].inboundSessionTxn = "supplied"
              /\ \A i \in DOMAIN req[r].calls : req[r].calls[i] = "readTxn" => i = 1

\* the run of a request that was disposed while it awaited its own read transaction has
\* ended, in a room with encryption and a batch that holds ciphertext
C21_Witness ==
    \E r \in Owners :
        /\ req[r].pc = "done"
        /\ req[r].cancelPc = "readTxn"
        /\ req[r].inboundSessionTxn = "own"
        /\ req[r].outcome = "resolved"
        /\ roomEncryption
        /\ encryptedEntries(req[r]) # {}

\* the request holds or has used a preparation that prepareDecryptAll returned
hasPreparation(q) == q.preparation = "held" \/ called(q, "decrypt")

\* C22: a request disposed after prepareDecryptAll was called and before
\* preparation.decrypt() has returned writes nothing, and the preparation that
\* prepareDecryptAll returned to it has had dispose() called on it, also when the request
\* was disposed while prepareDecryptAll was pending
C22_CancelledPlanDisposed ==
    \A r \in Owners :
        req[r].cancelPc \in {"prepareDecryptAll", "decrypt"} =>
            /\ req[r].rwTxns = 0
            /\ req[r].writeCalls = 0
            /\ groupSessionDecryptions = req[r].storeBefore
            /\ hasPreparation(req[r]) => req[r].prepDisposed

\* the stores of the read-write transaction of q hold the deviceIdentities store
hasDeviceIdentities(q) == "deviceIdentities" \in q.stores

\* C23 as stated: in a run that has ended after it asked for its write transaction, the
\* deviceIdentities store is part of that transaction if and only if the run called
\* verifySenders
C23_Original ==
    \A r \in Owners :
        (req[r].pc = "done" /\ req[r].rwTxns > 0) =>
            (hasDeviceIdentities(req[r]) <=> called(req[r], "verifySenders"))

\* C23 amended: the stores of the write transaction and the call of verifySenders are
\* both decided by whether a timeline is open when the run asks for the transaction,
\* whatever happens to the timeline later; verifySenders is called only with the
\* deviceIdentities store in the transaction, on the open transaction, right after
\* changes.write has resolved and before writeTxn.complete is called; and it is called
\* in every such run in which changes.write does not throw
C23_DeviceStoreIffVerify ==
    [][\A r \in Owners :
          LET q == req'[r]
          IN  /\ q.rwTxns > req[r].rwTxns =>
                     /\ q.isTimelineOpen <=> timeline # 0
                     /\ q.rwTxns = 1
              /\ q.rwTxns > 0 =>
                     /\ hasDeviceIdentities(q) <=> q.isTimelineOpen
                     /\ "groupSessionDecryptions" \in q.stores
              /\ called(q, "verifySenders") => hasDeviceIdentities(q)
              /\ (q.pc \in {"verifySenders", "complete", "done"} /\ q.rwTxns > 0
                      /\ q.thrown # "writeError") =>
                     (hasDeviceIdentities(q) <=> called(q, "verifySenders"))
              /\ q.pc = "verifySenders" =>
                     /\ q.writeTxn = "open"
                     /\ q.written = q.results
              /\ \A i \in DOMAIN q.calls :
                     q.calls[i] = "verifySenders" =>
                         /\ i > 1 /\ q.calls[i - 1] = "write"
                         /\ i < Len(q.calls) => q.calls[i + 1] \in {"complete", "abort"}
                         /\ \A j \in DOMAIN q.calls : q.calls[j] = "complete" => j > i]_vars

\* a run that found the timeline open when it asked for its write transaction has
\* verified the senders and committed although the timeline was closed meanwhile
C23_Witness ==
    \E r \in Owners :
        /\ req[r].pc = "done"
        /\ req[r].outcome = "resolved"
        /\ req[r].isTimelineOpen
        /\ called(req[r], "verifySenders")
        /\ req[r].writeTxn = "committed"
        /\ req[r].results # {}
        /\ timeline = 0

\* the place of the first call of `what` in the calls of q, 0 if there is none
callIndex(q, what) ==
    IF called(q, what) THEN CHOOSE i \in DOMAIN q.calls :
                                /\ q.calls[i] = what
                                /\ \A j \in DOMAIN q.calls : q.calls[j] = what => i <= j
                       ELSE 0

\* C24: a run calls applyToEntries only in the step in which writeTxn.complete() has
\* resolved, with its decryptions committed to the store, after every other call of the
\* run; it notifies the per-event observers only after applyToEntries; the entry
\* objects change in no other step; and when the commit fails the run ends rejected
\* with nothing applied, nothing notified and the store and the entries as they were
C24_ApplyAfterCommit ==
    [][\A r \in Owners :
          LET q == req'[r]
          IN  /\ q.applyCalls > req[r].applyCalls =>
                     /\ req[r].pc = "complete"
                     /\ q.writeTxn = "committed"
                     /\ q.applyCalls = 1
                     /\ q.results \subseteq groupSessionDecryptions'
                     /\ callIndex(q, "applyToEntries") > callIndex(q, "complete")
                     /\ callIndex(q, "complete") > 0
              /\ q.notifyCalls > req[r].notifyCalls =>
                     /\ q.applyCalls = 1
                     /\ q.notifyCalls = 1
                     /\ callIndex(q, "updateEvents") > callIndex(q, "applyToEntries")
              /\ called(q, "updateEvents") => called(q, "applyToEntries")
              /\ called(q, "applyToEntries") => q.writeTxn = "committed"
              /\ (entryDec' # entryDec) =>
                     \E o \in Owners : req'[o].applyCalls > req[o].applyCalls
              /\ q.error = "commitError" =>
                     /\ q.outcome = "rejected"
                     /\ q.applyCalls = 0
                     /\ q.notifyCalls = 0
                     /\ ~called(q, "applyToEntries")
                     /\ ~called(q, "updateEvents")
                     /\ groupSessionDecryptions' = q.storeBefore
                     /\ \A e \in batchIds(q) : entryDec'[e] = q.decBefore[e]]_vars

\* a run has committed, marked an entry of the timeline decrypted and notified the
\* observers of the room
C24_Witness ==
    \E r \in Owners :
        /\ req[r].pc = "done"
        /\ req[r].outcome = "resolved"
        /\ req[r].calls[Len(req[r].calls)] = "updateEvents"
        /\ req[r].calls[Len(req[r].calls) - 1] = "applyToEntries"
        /\ req[r].calls[Len(req[r].calls) - 2] = "complete"
        /\ \E e \in req[r].results : entryDec[e] = "decrypted" /\ req[r].decBefore[e] = "undecrypted"
        /\ \E e \in req[r].errors : entryDec[e] = "failed"

\* the Timeline instances disposed in the step
disposedInStep == {i \in TimelineIds : tl[i].state # "disposed" /\ tl'[i].state = "disposed"}

\* C25: in a step in which a Timeline is disposed, by its consumer, by the room's
\* dispose or by openTimeline's catch block, the close callback runs: the room refers to
\* no timeline afterwards, _isTimelineOpen is false, openTimeline does not reject, and
\* notifyTimelineClosed has been called once if the room has a room encryption and not
\* at all otherwise; it is called in no other step
C25_CloseCallback ==
    [][/\ disposedInStep # {} =>
              /\ Cardinality(disposedInStep) = 1
              /\ timeline' = 0
              /\ ~isTimelineOpen'
              /\ \A c \in OpenCalls : ~openTimelineRejects(c)'
              /\ notifyTimelineClosed' =
                     IF roomEncryption THEN notifyTimelineClosed + 1 ELSE notifyTimelineClosed
              /\ roomEncryption' = roomEncryption
       /\ notifyTimelineClosed' # notifyTimelineClosed => disposedInStep # {}
       /\ (timeline # 0 /\ timeline' = 0) => disposedInStep = {timeline}]_vars

\* a Timeline of a room with encryption was disposed, the room encryption was told once,
\* and a later openTimeline call has made a second Timeline
C25_Witness ==
    /\ roomEncryption
    /\ tl[1].state = "disposed"
    /\ tl[1].enableEncryption = 1
    /\ notifyTimelineClosed = 1
    /\ nCreated = 2
    /\ timeline = 2
    /\ \E c \in OpenCalls : open[c].created = 2 /\ open[c].pc = "returned"

\* the error of a failing enableEncryption or load
OpenErrors == {"enableError", "loadError"}

\* C26: an openTimeline call that fails after it has constructed its Timeline, because
\* enableEncryption or timeline.load failed, leaves the Timeline it constructed
\* disposed and the room without a timeline, fails with the error that
\* enableEncryption or load failed with, and lets a later openTimeline call pass the
\* check of line 390
C26_FailedOpenDisposesTimeline ==
    [][\A c \in OpenCalls :
          (open[c].pc # "failed" /\ open'[c].pc = "failed" /\ open'[c].created # 0) =>
              /\ tl'[open'[c].created].state = "disposed"
              /\ timeline' = 0
              /\ open'[c].error \in OpenErrors
              /\ \A d \in OpenCalls : ~openTimelineRejects(d)']_vars

\* the place of a step of fillGap's lines 279-295 in the order the claim gives
fillRank(what) ==
    CASE what = "committed" -> 1
      [] what = "decryptEntries" -> 2
      [] what = "decrypted" -> 3
      [] what = "comparer.add" -> 4
      [] what = "applyGapFill" -> 5
      [] what = "replaceEntries" -> 6
      [] what = "addOrReplaceEntries" -> 7

\* the fill has done the step
fillCalled(f, what) == \E i \in DOMAIN f.calls : f.calls[i] = what

\* the in-memory steps of lines 284-295
InMemorySteps == {"comparer.add", "applyGapFill", "replaceEntries", "addOrReplaceEntries"}

\* C27: a fillGap call changes the comparer, the fragment entry and the timeline only in
\* the step in which it resolves, with its transaction committed to the stores and, in a
\* room that was encrypted when the transaction committed, with the decryption request
\* of the new entries resolved.  Its steps from the commit on are in the order commit,
\* decryption, comparer.add of every new fragment, _applyGapFill, replaceEntries,
\* addOrReplaceEntries, so the fragments of the entries it adds to the timeline are
\* known to the comparer
C27_FillAppliesAfterCommit ==
    [][\A c \in FillCalls :
          LET f == fill'[c]
              resolves == fill[c].pc # "done" /\ f.pc = "done" /\ f.outcome = "resolved"
          IN  /\ (comparer' # comparer \/ fragmentEntry' # fragmentEntry) =>
                     \E d \in FillCalls :
                         fill[d].pc \in {"complete", "decrypt"} /\ fill'[d].pc = "done"
              /\ f.calls # fill[c].calls =>
                     /\ fill[c].pc \in {"complete", "decrypt"}
                     /\ f.txn = "committed"
                     /\ storageTxn'.holder # c
              /\ (resolves /\ f.calls # << >>) =>
                     /\ fill[c].pc = "decrypt" =>
                            /\ req[c].pc = "done"
                            /\ req[c].outcome = "resolved"
                            /\ fillCalled(f, "decrypted")
                     /\ fill[c].pc = "complete" => ~roomEncryption
              /\ \A i, j \in DOMAIN f.calls :
                     i < j => \/ fillRank(f.calls[i]) < fillRank(f.calls[j])
                              \/ f.calls[i] = "comparer.add" /\ f.calls[j] = "comparer.add"
              /\ f.calls # << >> => f.calls[1] = "committed"
              /\ (\E w \in InMemorySteps : fillCalled(f, w)) =>
                     (fillCalled(f, "decryptEntries") => fillCalled(f, "decrypted"))
              /\ fillCalled(f, "replaceEntries") <=> fillCalled(f, "addOrReplaceEntries")
              /\ (resolves /\ fillCalled(f, "addOrReplaceEntries")) =>
                     /\ timeline # 0
                     /\ \A i \in DOMAIN f.gapResult.fragments :
                            fragmentLinks(f.gapResult.fragments[i]) \in comparer'.fragments
                     /\ Cardinality({i \in DOMAIN f.calls : f.calls[i] = "comparer.add"})
                            = Len(f.gapResult.fragments)
                     /\ \A e \in elements(f.gapResult.entries) :
                            /\ e \in idsOf(remoteEntries')
                            /\ \E x \in timelineEvents' :
                                   /\ x.id = e
                                   /\ x.fragmentId \in idsOf(comparer'.fragments)]_vars

\* a fill of an encrypted room with an open timeline has made a fragment, committed,
\* had its entries decrypted, added the fragment to the comparer, applied the changes
\* of a remote echo and put its entries into the timeline
C27_Witness ==
    \E c \in FillCalls :
        /\ fill[c].pc = "done"
        /\ fill[c].calls = <<"committed", "decryptEntries", "decrypted", "comparer.add",
                              "comparer.add", "applyGapFill", "replaceEntries",
                              "addOrReplaceEntries">>
        /\ req[c].results # {}
        /\ fill[c].gapResult.entries # << >>

\* C28: the entries _getSyncRetryDecryptEntries returns are made from storage entries or
\* are clones: none is an entry object of the timeline, and with a timeline the clones
\* are those of the timeline's undecrypted entries for the new keys that are not among
\* the stored ones.  The step that decrypts the returned batch leaves every entry object
\* of the timeline as it was; the timeline changes in afterSync.  The batch notifyRoomKey
\* hands to the pipeline holds the timeline's own entry objects
C28_SyncRetryEntriesAreClones ==
    [][/\ \A i \in DOMAIN syncRetry'.retryEntries :
              syncRetry'.retryEntries[i].origin \in {"storage", "clone"}
       /\ (syncRetry.pc = "entriesPerKey" /\ syncRetry'.pc = "returned") =>
              LET stored == entriesPerKey(syncRetry.retryEventIds)
                  clones == {syncRetry'.retryEntries[i].id :
                                i \in {j \in DOMAIN syncRetry'.retryEntries :
                                          syncRetry'.retryEntries[j].origin = "clone"}}
              IN  /\ clones \subseteq remoteIds
                  /\ clones = IF timeline # 0
                                 THEN filterUndecryptedEventEntriesForKeys(
                                          remoteIds, elements(syncRetry.newKeys))
                                          \ entryIds(stored)
                                 ELSE {}
                  /\ entryDec' = entryDec
       /\ (syncRetry.pc = "returned" /\ syncRetry'.pc = "written") =>
              /\ entryDec' = entryDec
              /\ remoteEntries' = remoteEntries
       /\ (syncRetry' # syncRetry /\ entryDec' # entryDec) =>
              /\ syncRetry.pc = "written"
              /\ timeline # 0
       /\ (retry.pc = "eventIdsToEntries" /\ retry'.pc = "decrypt" /\ timeline # 0) =>
              /\ timelineObjects(req'["retry"]) =
                     filterUndecryptedEventEntriesForKeys(remoteIds, {retry.roomKey})
                         \ entryIds(eventIdsToEntries(retry.eventIds))
              /\ timelineObjects(req'["retry"]) \subseteq remoteIds]_vars

\* the sync has decrypted the clone of an entry of the open timeline, and the timeline's
\* own entry is still undecrypted
C28_Witness ==
    /\ syncRetry.pc = "written"
    /\ timeline # 0
    /\ \E i \in DOMAIN syncRetry.retryEntries :
           /\ syncRetry.retryEntries[i].origin = "clone"
           /\ syncRetry.retryEntries[i].id \in syncRetry.results
           /\ syncRetry.retryEntries[i].id \in remoteIds
           /\ entryDec[syncRetry.retryEntries[i].id] = "undecrypted"
    /\ \E i \in DOMAIN syncRetry.retryEntries : syncRetry.retryEntries[i].origin = "storage"

\* the messages a call holds in the buffers of its member keys
bufferedMessages(g) ==
    UNION {{g.bufferedDeviceMessages[key][i] : i \in DOMAIN g.bufferedDeviceMessages[key]} :
              key \in MemberKeys}

handedOver(g) == {g.delivered[i].message : i \in DOMAIN g.delivered}

\* what holds of the hand-overs and the buffers of a call at any time
deliveredAsBuffered(g) ==
    /\ \A i \in DOMAIN g.delivered :
           /\ g.delivered[i].message.sender_session_id = g.delivered[i].sessionId
           /\ \A j \in DOMAIN g.delivered :
                  /\ g.delivered[j].message = g.delivered[i].message => i = j
                  /\ (/\ i < j
                      /\ g.delivered[i].message.userId = g.delivered[j].message.userId
                      /\ g.delivered[i].message.deviceId = g.delivered[j].message.deviceId
                      /\ g.delivered[i].sessionId = g.delivered[j].sessionId)
                         => g.delivered[i].message.id < g.delivered[j].message.id
    /\ handedOver(g) \cap bufferedMessages(g) = {}
    /\ \A key \in MemberKeys :
           LET buffered == g.bufferedDeviceMessages[key]
           IN  \A i \in DOMAIN buffered :
                   /\ getMemberKey(buffered[i].userId, buffered[i].deviceId) = key
                   /\ g.members[key].present =>
                          buffered[i].sender_session_id # g.members[key].sessionId
                   /\ \A j \in DOMAIN buffered : i < j => buffered[i].id < buffered[j].id

\* C29: a to-device message is handed to the Member of its (userId, deviceId) only when
\* the member's sessionId equals its sender_session_id, and at most once. When it arrives
\* it is handed over at once if such a member exists, and else added at the end of the
\* buffer of its key. A buffered message leaves the buffer only by being handed over, which
\* an updateMembership does, in arrival order, for the messages that carry the session id
\* of the member it creates or updates; the others stay buffered.
C29_DeviceMessages ==
    [][\A callId \in CallIds :
          LET g == callHandler.calls[callId]
              h == callHandler'.calls[callId]
              arrives == callHandler'.arrived = callHandler.arrived + 1
          IN  (g.exists /\ h.exists) =>
                /\ deliveredAsBuffered(h)
                /\ SubSeq(h.delivered, 1, Len(g.delivered)) = g.delivered
                /\ bufferedMessages(g) \subseteq bufferedMessages(h) \cup handedOver(h)
                /\ \A key \in MemberKeys :
                       LET member == g.members[key]
                           buffered == g.bufferedDeviceMessages[key]
                           new == {m \in bufferedMessages(h) \cup handedOver(h) :
                                      /\ m.id = callHandler'.arrived
                                      /\ getMemberKey(m.userId, m.deviceId) = key}
                       IN  (arrives /\ new # {}) =>
                             \A m \in new :
                                 IF member.present /\ member.sessionId = m.sender_session_id
                                 THEN /\ h.delivered = Append(g.delivered,
                                             [message |-> m, sessionId |-> member.sessionId,
                                              how |-> "immediate"])
                                      /\ h.bufferedDeviceMessages = g.bufferedDeviceMessages
                                 ELSE /\ h.delivered = g.delivered
                                      /\ h.bufferedDeviceMessages =
                                             [g.bufferedDeviceMessages EXCEPT ![key] = Append(buffered, m)]
                /\ ~arrives =>
                       \A i \in DOMAIN h.delivered :
                           i > Len(g.delivered) =>
                               /\ h.delivered[i].how = "flush"
                               /\ h.delivered[i].message \in bufferedMessages(g)
                               /\ LET key == getMemberKey(h.delivered[i].message.userId,
                                                          h.delivered[i].message.deviceId)
                                  IN  /\ h.members[key].present
                                      /\ h.members[key].sessionId = h.delivered[i].sessionId
      ]_vars

\* two messages of one session were buffered under a member key and handed over, in the
\* order they arrived in, by the updateMembership that made the member of that session
C29_Witness ==
    LET g == callHandler.calls["c1"]
    IN  /\ g.exists
        /\ Len(g.delivered) = 2
        /\ g.delivered[1].how = "flush" /\ g.delivered[2].how = "flush"
        /\ g.delivered[1].message.id = 1 /\ g.delivered[2].message.id = 2
        /\ g.delivered[1].sessionId = g.delivered[2].sessionId
        /\ g.delivered[1].message.deviceId = g.delivered[2].message.deviceId

\* the device ids a list of "m.devices" names, without the own device of the own user
listedDeviceIds(userId, devices) ==
    {devices[i].device_id : i \in DOMAIN devices} \
        (IF userId = ownUserId THEN {ownDeviceId} ELSE {})

\* the Member objects of the user that call g holds and call h does not hold any more
removedMembers(g, h, userId) ==
    {[key |-> key, sessionId |-> g.members[key].sessionId] :
        key \in {k \in MemberKeys : /\ memberKeyIsForUser(k, userId)
                                    /\ g.members[k].present
                                    /\ \/ ~h.members[k].present
                                       \/ h.members[k].lastOp = "new"}}

\* what holds of call h, made of call g by updating or removing the membership of the user
membershipChanged(g, h, userId) ==
    /\ ~h.members[getMemberKey(ownUserId, ownDeviceId)].present
    /\ removedMembers(g, h, userId) \subseteq h.disconnected
    /\ \A key \in MemberKeys :
           ~memberKeyIsForUser(key, userId) =>
               /\ h.members[key].present = g.members[key].present
               /\ h.members[key].sessionId = g.members[key].sessionId

\* the state and the joined data that join (121-153) and disconnect (363-373) leave a
\* known call with: not joined, joining, joining and disconnected meanwhile, joined
JoinStates ==
    {[state |-> "created", joinedData |-> FALSE], [state |-> "joining", joinedData |-> TRUE],
     [state |-> "joining", joinedData |-> FALSE], [state |-> "joined", joinedData |-> TRUE]}

\* the join states the membership of a user is updated in: all of them for the own user,
\* whose membership changes the state of the call, and not joined and joined for the others
JoinStatesFor(userId) ==
    {j \in JoinStates : userId = ownUserId \/ j.joinedData = (j.state = "joined")}

\* C30: after updateMembership(userId, membership) the device ids the user has in the
\* members map of the call are those listed in "m.devices" without the own device of the
\* own user, which is never in the map, and every Member taken out of the map was
\* disconnected; after handleCallMemberEvent the user has no device in any known call that
\* the previous member event of the user listed and the new one does not. This holds of
\* every membership of the first call, in which the users have up to two devices, whether
\* the own user has joined it or not, and of every member event of either call that can
\* come in the states the handler reaches.
C30_MembershipFollowsEvents ==
    /\ \A callId \in {c \in {"c1"} : callHandler.calls[c].exists}, userId \in UserIds :
         \A devices \in DeviceLists, joined \in JoinStatesFor(userId) :
           LET g == [callHandler.calls[callId] EXCEPT !.disconnected = {},
                                                     !.state = joined.state,
                                                     !.joinedData = joined.joinedData]
               h == updateMembership(g, userId, devices)
           IN  g.exists =>
                 /\ getDeviceIdsForUserId(h, userId) = listedDeviceIds(userId, devices)
                 /\ membershipChanged(g, h, userId)
    /\ \A userId \in UserIds, listed \in ShortCallLists(CallIds) \cup TwoCallLists :
           LET after == afterCallMemberEvent(callHandler, userId, listed)
               new == {listed[i].call_id : i \in DOMAIN listed}
               previous == callHandler.roomMemberToCallIds[userId]
           IN  /\ after.roomMemberToCallIds[userId] = new
               /\ \A callId \in CallIds :
                      LET g == callHandler.calls[callId]
                          h == after.calls[callId]
                      IN  /\ h.exists = g.exists
                          /\ g.exists => membershipChanged(g, h, userId)
                          /\ (g.exists /\ callId \in previous \ new) =>
                                 getDeviceIdsForUserId(h, userId) = {}
                          /\ \A i \in DOMAIN listed :
                                 (g.exists /\ listed[i].call_id = callId) =>
                                     getDeviceIdsForUserId(h, userId) =
                                         listedDeviceIds(userId, listed[i].devices)
                          /\ (g.exists /\ callId \notin previous \cup new) =>
                                 h.members = g.members

\* a user whose previous member event listed both calls, with a device in each, has sent
\* one that lists the second call only: the Member of the first call was taken out of its
\* map and disconnected, the one of the second call is kept
C30_Witness ==
    LET first == callHandler.calls["c1"]
        second == callHandler.calls["c2"]
    IN  /\ first.exists /\ second.exists
        /\ callHandler.roomMemberToCallIds["@u1"] = {"c2"}
        /\ getDeviceIdsForUserId(first, "@u1") = {}
        /\ \E d \in first.disconnected : memberKeyIsForUser(d.key, "@u1")
        /\ getDeviceIdsForUserId(second, "@u1") # {}
        /\ second.disconnected = {}

\* C36: an openTimeline call acts on the Timeline it constructed only: the Timeline a call
\* has returned is the instance that call constructed, and the Timeline disposed by a call
\* whose load failed is the instance that call constructed, whatever was disposed or opened
\* while the load was pending.
C36_ActsOnOwnTimeline ==
    [][\A c \in OpenCalls :
          /\ (open[c].pc = "load" /\ open'[c].pc = "returned") =>
                 open'[c].result = open[c].created
          /\ (open[c].pc = "load" /\ open'[c].pc = "failed") =>
                 /\ open'[c].error = "loadError"
                 /\ tl'[open[c].created].state = "disposed"
                 /\ \A i \in TimelineIds :
                        i # open[c].created => tl'[i].state = tl[i].state
      ]_vars

\* C37: a fillGap call whose storage transaction has committed does not settle before
\* every fragment of its result is in the FragmentIdComparer and, with a timeline open,
\* its entries are in the timeline, also when the decryption request it waits for between
\* the commit and the in-memory update rejects.
C37_CommittedFillIsApplied ==
    [][\A c \in FillCalls :
          (fill[c].pc # "done" /\ fill'[c].pc = "done" /\ fill'[c].txn = "committed") =>
              /\ \A i \in DOMAIN fill'[c].gapResult.fragments :
                     fragmentLinks(fill'[c].gapResult.fragments[i]) \in comparer'.fragments
              /\ timeline # 0 =>
                     \A e \in elements(fill'[c].gapResult.entries) : e \in idsOf(remoteEntries')
      ]_vars

\* C35: after any sequence of call events no call of the calls map has a content with
\* m.terminated true, and every call id of the calls store is the id of such a call: a
\* terminated call event leaves its call neither in the map nor in the store, whether the
\* call was known before or not.
C35_NoTerminatedCall ==
    \A callId \in CallIds :
        /\ callHandler.calls[callId].exists => ~callHandler.calls[callId].terminated
        /\ callId \in callHandler.store =>
               /\ callHandler.calls[callId].exists
               /\ ~callHandler.calls[callId].terminated

\* C34: after leave() or disconnect() has run on a call that was joining or joined, the
\* call is in state created without joined data; in every state, a call of the calls map
\* for which hasJoined is true has joined data, and a call without joined data on which
\* no join is running is in state created, so that join() is accepted
C34_LeftCallIsCreated ==
    \A callId \in CallIds :
        LET call == callHandler.calls[callId]
        IN  call.exists =>
                /\ hasJoined(call) => call.joinedData
                /\ (~call.joinedData /\ call.state \notin {"fledgling", "creating"}) =>
                       ~joinReturns(call)

\* C32: an invocation of join is accepted exactly when the call is in state created
\* without joined data, and else changes nothing of the call; between two runs of
\* disconnect at most one invocation is accepted, however many overlap, and only an
\* accepted invocation sends the m.call.member event or connects to the members
C32_OneJoinAccepted ==
    /\ [](\A callId \in CallIds :
             /\ callHandler.calls[callId].acceptedJoins <= 1
             /\ \A j \in JoinCalls :
                    LET invocation == callHandler.calls[callId].join[j]
                    IN  (invocation.sent \/ invocation.connected) => invocation.accepted)
    /\ [][\A callId \in CallIds, j \in JoinCalls :
             LET call == callHandler.calls[callId]
                 after == callHandler'.calls[callId]
             IN  (call.join[j].pc = "idle" /\ after.join[j].pc # "idle") =>
                     IF call.state = "created" /\ ~call.joinedData
                     THEN /\ after.join[j].accepted
                          /\ after.joinedData /\ after.state = "joining"
                          /\ after.acceptedJoins = call.acceptedJoins + 1
                     ELSE /\ ~after.join[j].accepted
                          /\ [after EXCEPT !.join = call.join,
                                           !.disconnected = call.disconnected] = call
         ]_vars

\* one invocation of join has sent the event and connected to a member, the overlapping
\* one has returned without being accepted
C32_Witness ==
    LET call == callHandler.calls["c1"]
    IN  /\ call.join["j1"].accepted /\ call.join["j1"].sent /\ call.join["j1"].connected
        /\ call.join["j2"].pc = "done" /\ ~call.join["j2"].accepted
        /\ \E key \in MemberKeys : call.members[key].present /\ call.members[key].connected

\* C33: every step leaves the state of a GroupCall as it is or changes it along
\* fledgling -> creating, creating -> created, created -> joining, joining -> joined or
\* joined -> created, a call being constructed fledgling (and created at once by
\* createCall, which makes it creating) or created; no call returns to fledgling or
\* creating
C33_StateTransitions ==
    [][\A callId \in CallIds :
          LET before == callHandler.calls[callId].state
              after == callHandler'.calls[callId].state
          IN  \/ after = before
              \/ before = "none" /\ after \in {"fledgling", "creating", "created"}
              \/ after = "none"
              \/ <<before, after>> \in {<<"fledgling", "creating">>, <<"creating", "created">>,
                                        <<"created", "joining">>, <<"joining", "joined">>,
                                        <<"joined", "created">>}
      ]_vars

\* C31: the step in which createCall rejects leaves the call out of the calls map, and
\* the step in which it resolves leaves the returned call in the calls map, in state
\* created, and its id in the calls store
C31_CreateCallOutcome ==
    [][\A callId \in CallIds :
          LET invocation == callHandler.calls[callId].create
              after == callHandler'.calls[callId]
          IN  /\ (invocation # "rejected" /\ after.create = "rejected") => ~after.exists
              /\ (invocation # "resolved" /\ after.create = "resolved") =>
                     /\ after.exists
                     /\ after.state = "created"
                     /\ callId \in callHandler'.store
      ]_vars

\* C38: in every reachable state of a call and for every device a member event may
\* report (the own device apart), updateMembership leaves one Member under the key of
\* the device, with the session id reported: if a Member with that session id was there,
\* it is the same object, updated, with its connection as it was and no disconnect; else
\* the Member is a new one, connected exactly if the call has joined data, and a Member
\* of another session that was there has been disconnected; no other key changes
C38_OneMemberPerDevice ==
    \A callId \in CallIds, userId \in UserIds, device \in Devices :
        LET g == [callHandler.calls[callId] EXCEPT !.disconnected = {}]
            memberKey == getMemberKey(userId, device.device_id)
            old == g.members[memberKey]
            h == updateDeviceMembership(g, userId, device)
            new == h.members[memberKey]
        IN  (g.exists /\ ~(userId = ownUserId /\ device.device_id = ownDeviceId)) =>
                /\ new.present /\ new.sessionId = device.session_id
                /\ IF old.present /\ old.sessionId = device.session_id
                   THEN /\ new = [old EXCEPT !.lastOp = "update"]
                        /\ h.disconnected = {}
                   ELSE /\ new.lastOp = "new"
                        /\ new.connected = g.joinedData
                        /\ h.disconnected = IF old.present
                                            THEN {[key |-> memberKey, sessionId |-> old.sessionId]}
                                            ELSE {}
                /\ \A key \in MemberKeys \ {memberKey} : h.members[key] = g.members[key]

\* the local user has joined a call, and the last member event changed the session id of
\* a device that had a Member: the old Member was disconnected, the new one is connected
C38_Witness ==
    \E callId \in CallIds, key \in MemberKeys :
        LET call == callHandler.calls[callId]
        IN  /\ call.exists /\ call.joinedData
            /\ call.members[key].present /\ call.members[key].connected
            /\ \E sessionId \in SessionIds \ {call.members[key].sessionId} :
                   [key |-> key, sessionId |-> sessionId] \in call.disconnected

====
